---- MODULE Spec2Model ----
(***************************************************************************)
(* Sheet-music tutor: the Leitner scheduler (utils/leitnerSystem.ts) and   *)
(* the review session (App.tsx, components/FlashCard.tsx).                   *)
(*                                                                         *)
(* Time is counted in units of 500 ms, the length of the stabilization     *)
(* window of FlashCard.tsx; every delay of the program is a multiple of it.*)
(***************************************************************************)
EXTENDS Integers, Sequences, FiniteSets, TLC

\* ---------------------------------------------------------------- bounds
\* Largest review interval a settings form value takes, in time units.
MaxInterval == 2
\* Reviews recorded in one collection by direct calls of the scheduler.
MaxReviews == 5
\* Browser timer handles in use at one time.
MaxTimers == 4
\* Profile changes in one session.
MaxSwitches == 1
\* The Answer Timeout setting when it is switched on, in seconds.
TimeoutSeconds == 1
\* Longest durationMs passed to detectPitchStable, in polling periods of 50 ms.
MaxDuration == 3
\* Largest requiredConsensus passed to detectPitchStable.
MaxConsensus == 3

\* Longest octave number, in digits, of a note text compared.
MaxOctaveDigits == 1

\* Most notes in a chord detected or expected.
MaxChordSize == 3

\* The clock stops advancing here: late enough for the longest interval to
\* elapse after a review at time 1.
MaxTime == MaxInterval + 1

\* ------------------------------------------------------ program constants
\* LEITNER_BOXES.length: boxes 0..4.
NumBoxes == 5
\* setTimeout(..., 500): the stabilization window, one time unit.
StabilizationDelay == 1
\* setTimeout(() => onCorrect(), 1000)
CorrectFeedbackDelay == 2
\* setTimeout(() => onIncorrect(), 1500)
IncorrectFeedbackDelay == 3
\* setInterval(..., 1000): one countdown second.
CountdownPeriod == 2

VARIABLES
    cards,              \* App: the card collection (a sequence of FlashCard records)
    now,                \* Date.now(), in time units
    settings,           \* settings.rehearsal: box number -> review interval
    last,               \* the scheduler call made last, with its input and its result
    currentCard,        \* App: the card displayed, None or Some(card)
    injectedLessonIds,  \* App: lessons merged into the collection
    currentUser,        \* App: the active profile
    storage,            \* localStorage: key -> item, None or Some(document)
    isListening,        \* App
    isPaused,           \* App
    detectedNote,       \* App: the detection loop's latest result
    timeout,            \* settings.timeout in seconds, 0 = infinite
    fc,                 \* the FlashCard component: state, refs and the reset effect's closure
    timers,             \* pending setTimeout / setInterval callbacks
    switches,           \* profile changes made so far
    silentTimeout,      \* settings.silentTimeout
    microphone,         \* the browser's answer to getUserMedia: "granted" or "denied"
    detector,           \* App: the PianoPitchDetector, its private fields
    isInitializing,     \* App
    error,              \* App: an error message is set
    poll                \* detectPitchStable: the call in progress, its tally and result

leitnerVars == <<cards, now, settings, last>>
audioVars == <<microphone, detector, isInitializing, error, poll>>
sessionVars == <<currentCard, injectedLessonIds, currentUser, storage, isListening,
                 isPaused, detectedNote, timeout, fc, timers, switches, silentTimeout,
                 audioVars>>
vars == <<cards, now, settings, last, currentCard, injectedLessonIds, currentUser,
          storage, isListening, isPaused, detectedNote, timeout, fc, timers, switches,
          silentTimeout, microphone, detector, isInitializing, error, poll>>

\* ------------------------------------------------------------ values
None == <<>>
Some(x) == <<x>>
NoId == <<>>

Range(s) == {s[i] : i \in DOMAIN s}

Note(name, octave) == [name |-> name, octave |-> octave]
\* detectedNote === null, stableNote === null
NoNote == Note("", 0)

\* The lesson catalog: one lesson of two notes.
LESSONS ==
    [lesson1 |-> <<Note("C", 4), Note("C#", 4)>>]
LessonIds == DOMAIN LESSONS

\* The notes of the lesson the scheduler is exercised on.
LessonNotes == LESSONS["lesson1"]

\* Notes the detection loop reports (generateNoteSet spells accidentals as sharps).
DetectableNotes == {Note("C", 4), Note("C#", 4)}
\* A text is the sequence of its characters; '' is the empty sequence.
EmptyText == <<>>
\* Answers a learner types: each the right one for one card of the lesson, the
\* second spelt as a flat.
TypedAnswers == {<<"C", "4">>, <<"D", "b", "4">>}
\* Texts a learner may type as well: a lower-case name, the German name of B,
\* a word, and an answer followed by a blank.
TypedTexts ==
    {<<"C", "4">>, <<"D", "b", "4", " ">>, <<"c", "4">>, <<"H", "4">>,
     <<"h", "e", "l", "l", "o">>}

Users == {"ella", "georg"}

\* RehearsalSettings a user can configure: every box a positive interval, and
\* neighbouring boxes differing intervals; box 0 takes every value 1..MaxInterval.
IntervalConfigs ==
    {[b \in 0..(NumBoxes - 1) |-> 1 + ((b + k) % MaxInterval)] : k \in 0..(MaxInterval - 1)}

RECURSIVE SumReviews(_)
SumReviews(cs) ==
    IF cs = <<>> THEN 0 ELSE cs[1].reviewCount + SumReviews(Tail(cs))

NoOp == [op |-> "none", arg |-> None, exclude |-> NoId, res |-> None, at |-> 0]

\* ---------------------------------------------------------- utils/lessons.ts
NotesOf(names, octave) == [i \in DOMAIN names |-> Note(names[i], octave)]

generateNotesForOctave(octave) ==
    NotesOf(<<"C", "D", "E", "F", "G", "A", "B">>, octave)

generateAccidentalsForOctave(octave) ==
    NotesOf(<<"C#", "Db", "D#", "Eb", "F#", "Gb", "G#", "Ab", "A#", "Bb">>, octave)

generateBassClefNotes(startOctave) ==
    NotesOf(<<"E", "F", "G", "A", "B">>, startOctave)
    \o NotesOf(<<"C", "D">>, startOctave + 1)

generateBassClefAccidentals(startOctave) ==
    NotesOf(<<"F#", "Gb", "G#", "Ab", "A#", "Bb">>, startOctave)
    \o NotesOf(<<"C#", "Db", "D#", "Eb">>, startOctave + 1)

\* The notes of the note lessons, lesson1 to lesson12.
NoteLessons ==
    <<generateNotesForOctave(4), generateNotesForOctave(5), generateNotesForOctave(3),
      generateAccidentalsForOctave(4), generateAccidentalsForOctave(5),
      generateAccidentalsForOctave(3),
      generateBassClefNotes(2), generateBassClefNotes(3), generateBassClefNotes(1),
      generateBassClefAccidentals(2), generateBassClefAccidentals(3),
      generateBassClefAccidentals(1)>>

\* ------------------------------------------------- utils/leitnerSystem.ts
getIntervalMs(boxNumber, st) ==
    IF boxNumber \in 0..4 THEN st[boxNumber] ELSE st[0]

initializeFlashCards(notes) ==
    [index \in 1..Len(notes) |->
        [id |-> <<notes[index].name, notes[index].octave, index - 1>>,
         note |-> notes[index],
         boxNumber |-> -1,
         lastReviewDate |-> 0,
         nextReviewDate |-> 0,
         reviewCount |-> 0,
         correctCount |-> 0,
         incorrectCount |-> 0]]

getDueCardsStrict(cs, t) ==
    SelectSeq(cs, LAMBDA card : card.boxNumber >= 0 /\ card.nextReviewDate < t)

getDueCards(cs, t) ==
    SelectSeq(cs, LAMBDA card : card.boxNumber >= 0 /\ card.nextReviewDate <= t)

getNewCard(cs) ==
    LET newCards == SelectSeq(cs, LAMBDA card : card.boxNumber = -1)
    IN  IF Len(newCards) > 0 THEN Some(newCards[1]) ELSE None

\* The results Math.random() lets getNextCard return.
getNextCard(cs, excludeCardId, t) ==
    LET dueCards == getDueCards(cs, t)
        availableCards ==
            IF excludeCardId # NoId
            THEN SelectSeq(dueCards, LAMBDA card : card.id # excludeCardId)
            ELSE dueCards
    IN  IF Len(availableCards) > 0
        THEN {Some(availableCards[k]) : k \in 1..Len(availableCards)}
        ELSE {getNewCard(cs)}

Min(a, b) == IF a < b THEN a ELSE b

promoteCardNoCorrect(card, st, t) ==
    LET newBoxNumber == Min(card.boxNumber + 1, NumBoxes - 1)
    IN  [card EXCEPT !.boxNumber = newBoxNumber,
                     !.lastReviewDate = t,
                     !.nextReviewDate = t + getIntervalMs(newBoxNumber, st),
                     !.reviewCount = card.reviewCount + 1]

promoteCardOldInterval(card, st, t) ==
    LET newBoxNumber == Min(card.boxNumber + 1, NumBoxes - 1)
    IN  [card EXCEPT !.boxNumber = newBoxNumber,
                     !.lastReviewDate = t,
                     !.nextReviewDate = t + getIntervalMs(card.boxNumber, st),
                     !.reviewCount = card.reviewCount + 1,
                     !.correctCount = card.correctCount + 1]

promoteCard(card, st, t) ==
    LET newBoxNumber == Min(card.boxNumber + 1, NumBoxes - 1)
        intervalMs == getIntervalMs(newBoxNumber, st)
    IN  [card EXCEPT !.boxNumber = newBoxNumber,
                     !.lastReviewDate = t,
                     !.nextReviewDate = t + intervalMs,
                     !.reviewCount = card.reviewCount + 1,
                     !.correctCount = card.correctCount + 1]

demoteCardOneBox(card, st, t) ==
    LET newBoxNumber == IF card.boxNumber > 0 THEN card.boxNumber - 1 ELSE 0
    IN  [card EXCEPT !.boxNumber = newBoxNumber,
                     !.lastReviewDate = t,
                     !.nextReviewDate = t + getIntervalMs(newBoxNumber, st),
                     !.reviewCount = card.reviewCount + 1,
                     !.incorrectCount = card.incorrectCount + 1]

demoteCard(card, st, t) ==
    LET intervalMs == getIntervalMs(0, st)
    IN  [card EXCEPT !.boxNumber = 0,
                     !.lastReviewDate = t,
                     !.nextReviewDate = t + intervalMs,
                     !.reviewCount = card.reviewCount + 1,
                     !.incorrectCount = card.incorrectCount + 1]

introduceCardNextUnit(card, t) ==
    [card EXCEPT !.boxNumber = 0,
                 !.lastReviewDate = t,
                 !.nextReviewDate = t + 1]

introduceCard(card, t) ==
    [card EXCEPT !.boxNumber = 0,
                 !.lastReviewDate = t,
                 !.nextReviewDate = t]

RECURSIVE sumOf(_, _)
\* cs.reduce((sum, card) => sum + card[field], 0)
sumOf(cs, field) ==
    IF cs = <<>> THEN 0 ELSE Head(cs)[field] + sumOf(Tail(cs), field)

\* ((totalCorrect / totalReviews) * 100).toFixed(1), as a number of tenths:
\* the nearest tenth, the larger of two equally near.
toFixed1(totalCorrect, totalReviews) ==
    (2000 * totalCorrect + totalReviews) \div (2 * totalReviews)

getStatisticsFourBoxes(cs, t) ==
    LET activeCards == SelectSeq(cs, LAMBDA card : card.boxNumber >= 0)
        totalReviews == sumOf(activeCards, "reviewCount")
        totalCorrect == sumOf(activeCards, "correctCount")
    IN  [totalCards |-> Len(cs),
         activeCards |-> Len(activeCards),
         newCards |-> Len(SelectSeq(cs, LAMBDA card : card.boxNumber = -1)),
         dueCards |-> Len(getDueCards(cs, t)),
         totalReviews |-> totalReviews,
         totalCorrect |-> totalCorrect,
         accuracy |-> IF totalReviews > 0 THEN toFixed1(totalCorrect, totalReviews) ELSE 0,
         boxDistribution |->
             [b \in 1..(NumBoxes - 1) |->
                 [boxNumber |-> b - 1,
                  count |-> Len(SelectSeq(activeCards,
                                          LAMBDA card : card.boxNumber = b - 1))]]]

getStatistics(cs, t) ==
    LET activeCards == SelectSeq(cs, LAMBDA card : card.boxNumber >= 0)
        totalReviews == sumOf(activeCards, "reviewCount")
        totalCorrect == sumOf(activeCards, "correctCount")
    IN  [totalCards |-> Len(cs),
         activeCards |-> Len(activeCards),
         newCards |-> Len(SelectSeq(cs, LAMBDA card : card.boxNumber = -1)),
         dueCards |-> Len(getDueCards(cs, t)),
         totalReviews |-> totalReviews,
         totalCorrect |-> totalCorrect,
         accuracy |-> IF totalReviews > 0 THEN toFixed1(totalCorrect, totalReviews) ELSE 0,
         boxDistribution |->
             [b \in 1..NumBoxes |->
                 [boxNumber |-> b - 1,
                  count |-> Len(SelectSeq(activeCards,
                                          LAMBDA card : card.boxNumber = b - 1))]]]

\* cards.map(c => c.id === x.id ? x : c)
replaceById(cs, x) ==
    [i \in DOMAIN cs |-> IF cs[i].id = x.id THEN x ELSE cs[i]]

\* ------------------------------------------------------ utils/noteUtils.ts
\* [A-G]
Letters == {"A", "B", "C", "D", "E", "F", "G"}
\* [#b]
Accidentals == {"#", "b"}
\* \d, and the digit a number's decimal form has for each value 0..9
DigitChars == <<"0", "1", "2", "3", "4", "5", "6", "7", "8", "9">>

\* The characters of every name the pattern [A-G][#b]? matches.
Spelling ==
    [name \in {"A", "B", "C", "D", "E", "F", "G",
               "A#", "B#", "C#", "D#", "E#", "F#", "G#",
               "Ab", "Bb", "Cb", "Db", "Eb", "Fb", "Gb"} |->
        CASE name = "A" -> <<"A">> [] name = "A#" -> <<"A", "#">> [] name = "Ab" -> <<"A", "b">>
          [] name = "B" -> <<"B">> [] name = "B#" -> <<"B", "#">> [] name = "Bb" -> <<"B", "b">>
          [] name = "C" -> <<"C">> [] name = "C#" -> <<"C", "#">> [] name = "Cb" -> <<"C", "b">>
          [] name = "D" -> <<"D">> [] name = "D#" -> <<"D", "#">> [] name = "Db" -> <<"D", "b">>
          [] name = "E" -> <<"E">> [] name = "E#" -> <<"E", "#">> [] name = "Eb" -> <<"E", "b">>
          [] name = "F" -> <<"F">> [] name = "F#" -> <<"F", "#">> [] name = "Fb" -> <<"F", "b">>
          [] name = "G" -> <<"G">> [] name = "G#" -> <<"G", "#">> [] name = "Gb" -> <<"G", "b">>]

\* `${n}` for a number n >= 0
RECURSIVE numberText(_)
numberText(n) ==
    IF n < 10 THEN <<DigitChars[n + 1]>>
    ELSE numberText(n \div 10) \o <<DigitChars[(n % 10) + 1]>>

\* `${note.name}${note.octave}`; null stays the empty text in this model
noteText(note) ==
    IF note = NoNote THEN EmptyText ELSE Spelling[note.name] \o numberText(note.octave)

\* String.prototype.trim, for the blank character
RECURSIVE trim(_)
trim(text) ==
    IF text = <<>> THEN text
    ELSE IF Head(text) = " " THEN trim(Tail(text))
    ELSE IF text[Len(text)] = " " THEN trim(SubSeq(text, 1, Len(text) - 1))
    ELSE text

\* noteStr.match(/^([A-G][#b]?)(\d+)$/): the length of the first group, 0 when
\* the text does not match.
matchNote(noteStr) ==
    LET n == IF Len(noteStr) >= 2 /\ noteStr[2] \in Accidentals THEN 2 ELSE 1
    IN  IF /\ Len(noteStr) > n
           /\ noteStr[1] \in Letters
           /\ \A i \in (n + 1)..Len(noteStr) : noteStr[i] \in Range(DigitChars)
        THEN n ELSE 0

\* parseNote throws Error(`Invalid note format: ...`)
InvalidNoteFormat(noteStr) == matchNote(noteStr) = 0

\* parseNote of a text that matches: the name, and the octave as the text matched
parseNote(noteStr) ==
    LET n == matchNote(noteStr)
    IN  [name |-> CHOOSE name \in DOMAIN Spelling : Spelling[name] = SubSeq(noteStr, 1, n),
         octave |-> SubSeq(noteStr, n + 1, Len(noteStr))]

flatToSharpFourPairs(name) ==
    CASE name = "Db" -> "C#"
      [] name = "Eb" -> "D#"
      [] name = "Gb" -> "F#"
      [] name = "Ab" -> "G#"
      [] OTHER -> name

flatToSharp(name) ==
    CASE name = "Db" -> "C#"
      [] name = "Eb" -> "D#"
      [] name = "Gb" -> "F#"
      [] name = "Ab" -> "G#"
      [] name = "Bb" -> "A#"
      [] OTHER -> name

\* The value returned when neither parseNote throws.
areNotesEquivalent(note1, note2) ==
    IF parseNote(note1).octave # parseNote(note2).octave
    THEN FALSE
    ELSE flatToSharp(parseNote(note1).name) = flatToSharp(parseNote(note2).name)

noteNames == <<"C", "C#", "D", "D#", "E", "F", "F#", "G", "G#", "A", "A#", "B">>

\* noteNames.indexOf(name)
indexOf(names, name) ==
    IF \E i \in DOMAIN names : names[i] = name
    THEN (CHOOSE i \in DOMAIN names : names[i] = name) - 1
    ELSE -1

\* A frequency is written as its distance from A4 = 440 Hz in hundredths of
\* a semitone: 440 * 2^(n/12) Hz is 100 * n, and 12 * log2(f / g) is the
\* difference of f and g, in hundredths.
\* getFrequency throws for a name that is not in noteNames after the flats
\* are mapped; the notes of this model are none of those.
getFrequency(noteName, octave) ==
    LET noteIndex == indexOf(noteNames, flatToSharp(noteName))
        semitonesFromA4 == (octave - 4) * 12 + (noteIndex - 9)
    IN  100 * semitonesFromA4

\* The notes of octaves 2 to 6, in the order they are pushed.
generateNoteSet ==
    [k \in 1..(5 * Len(noteNames)) |->
        Note(noteNames[((k - 1) % Len(noteNames)) + 1], 2 + ((k - 1) \div Len(noteNames)))]

Abs(x) == IF x < 0 THEN -x ELSE x

\* The first note of the set within the tolerance, null (NoNote) when none is.
getNoteFromFrequency(frequency, tolerance) ==
    LET allNotes == generateNoteSet
        within == {k \in DOMAIN allNotes :
                      Abs(frequency - getFrequency(allNotes[k].name, allNotes[k].octave))
                          < tolerance}
    IN  IF within = {} THEN NoNote
        ELSE allNotes[CHOOSE k \in within : \A j \in within : k <= j]

\* The UTF-16 code unit of a character of a note name.
CharCode(ch) ==
    CASE ch = "#" -> 35
      [] ch = "A" -> 65 [] ch = "B" -> 66 [] ch = "C" -> 67 [] ch = "D" -> 68
      [] ch = "E" -> 69 [] ch = "F" -> 70 [] ch = "G" -> 71
      [] ch = "b" -> 98

\* Array.prototype.sort's default order of two strings: by code units, a
\* prefix before the longer string.
RECURSIVE textBefore(_, _)
textBefore(a, b) ==
    IF a = <<>> THEN b # <<>>
    ELSE IF b = <<>> THEN FALSE
    ELSE IF Head(a) # Head(b) THEN CharCode(Head(a)) < CharCode(Head(b))
    ELSE textBefore(Tail(a), Tail(b))

insertName(name, sorted) ==
    LET k == Cardinality({i \in DOMAIN sorted :
                            ~textBefore(Spelling[name], Spelling[sorted[i]])})
    IN  SubSeq(sorted, 1, k) \o <<name>> \o SubSeq(sorted, k + 1, Len(sorted))

\* notes.map(n => n.name).sort()
RECURSIVE sortedNames(_)
sortedNames(notes) ==
    IF notes = <<>> THEN <<>>
    ELSE insertName(Head(notes).name, sortedNames(Tail(notes)))

\* ------------------------------------------------ components/FlashCard.tsx
\* chordMatches: the names sorted as spelt, then compared place by place.
chordMatches(detected, expected) ==
    IF Len(detected) # Len(expected)
    THEN FALSE
    ELSE LET detectedNames == sortedNames(detected)
             expectedNames == sortedNames(expected)
         IN  \A index \in DOMAIN detectedNames :
                 areNotesEquivalent(Spelling[detectedNames[index]] \o <<"4">>,
                                    Spelling[expectedNames[index]] \o <<"4">>)

\* ----------------------------------------------------- utils/clockUtils.ts
\* The letter a-ring is written as the one character "aa".
NORWEGIAN_HOURS ==
    [h \in 0..12 |->
        CASE h = 0 -> <<"t", "o", "l", "v">>
          [] h = 1 -> <<"e", "t", "t">>
          [] h = 2 -> <<"t", "o">>
          [] h = 3 -> <<"t", "r", "e">>
          [] h = 4 -> <<"f", "i", "r", "e">>
          [] h = 5 -> <<"f", "e", "m">>
          [] h = 6 -> <<"s", "e", "k", "s">>
          [] h = 7 -> <<"s", "j", "u">>
          [] h = 8 -> <<"aa", "t", "t", "e">>
          [] h = 9 -> <<"n", "i">>
          [] h = 10 -> <<"t", "i">>
          [] h = 11 -> <<"e", "l", "l", "e", "v", "e">>
          [] h = 12 -> <<"t", "o", "l", "v">>]

getHourWord(hour) == NORWEGIAN_HOURS[hour % 12]

getNextHourWord(hour) == NORWEGIAN_HOURS[(hour + 1) % 12]

\* text.padStart(2, '0')
RECURSIVE padStart2(_)
padStart2(text) == IF Len(text) >= 2 THEN text ELSE padStart2(<<"0">> \o text)

formatDigital24(hour, minute) ==
    padStart2(numberText(hour)) \o <<":">> \o padStart2(numberText(minute))

\* hour % 12 || 12
displayHour(hour) == IF hour % 12 = 0 THEN 12 ELSE hour % 12

formatDigital12(hour, minute) ==
    numberText(displayHour(hour)) \o <<":">> \o padStart2(numberText(minute))

KlokkenEr == <<"k", "l", "o", "k", "k", "e", "n", " ", "e", "r", " ">>

getNorwegianTimePhrase(hour, minute) ==
    LET hourWord == getHourWord(hour)
        nextHourWord == getNextHourWord(hour)
    IN  KlokkenEr \o
        (CASE minute = 0 -> hourWord
           [] minute = 30 -> <<"h", "a", "l", "v", " ">> \o nextHourWord
           [] minute = 15 -> <<"k", "v", "a", "r", "t", " ", "o", "v", "e", "r", " ">> \o hourWord
           [] minute = 45 -> <<"k", "v", "a", "r", "t", " ", "p", "aa", " ">> \o nextHourWord
           [] minute = 5 -> <<"f", "e", "m", " ", "o", "v", "e", "r", " ">> \o hourWord
           [] minute = 10 -> <<"t", "i", " ", "o", "v", "e", "r", " ">> \o hourWord
           [] minute = 20 -> <<"t", "i", " ", "p", "aa", " ", "h", "a", "l", "v", " ">> \o nextHourWord
           [] minute = 25 -> <<"f", "e", "m", " ", "p", "aa", " ", "h", "a", "l", "v", " ">> \o nextHourWord
           [] minute = 35 -> <<"f", "e", "m", " ", "o", "v", "e", "r", " ", "h", "a", "l", "v", " ">> \o nextHourWord
           [] minute = 40 -> <<"t", "i", " ", "o", "v", "e", "r", " ", "h", "a", "l", "v", " ">> \o nextHourWord
           [] minute = 50 -> <<"t", "i", " ", "p", "aa", " ">> \o nextHourWord
           [] minute = 55 -> <<"f", "e", "m", " ", "p", "aa", " ">> \o nextHourWord
           [] OTHER ->
                IF minute < 30
                THEN numberText(minute) \o <<" ", "o", "v", "e", "r", " ">> \o hourWord
                ELSE numberText(60 - minute) \o <<" ", "p", "aa", " ">> \o nextHourWord)

\* text.replace(pattern, ''): the first occurrence of pattern is removed
replaceFirst(text, pattern) ==
    LET at == {i \in 1..(Len(text) - Len(pattern) + 1) :
                  SubSeq(text, i, i + Len(pattern) - 1) = pattern}
    IN  IF at = {} THEN text
        ELSE LET i == CHOOSE i \in at : \A j \in at : i <= j
             IN  SubSeq(text, 1, i - 1) \o SubSeq(text, i + Len(pattern), Len(text))

\* getValidAnswers without the phrase's short form.
getValidAnswersNoShortForm(hour, minute, language) ==
    <<formatDigital24(hour, minute), formatDigital12(hour, minute)>>
    \o (IF hour < 10
        THEN <<numberText(hour) \o <<":">> \o padStart2(numberText(minute))>> ELSE <<>>)
    \o (IF minute < 10
        THEN <<padStart2(numberText(hour)) \o <<":">> \o numberText(minute),
               numberText(hour) \o <<":">> \o numberText(minute)>>
        ELSE <<>>)
    \o (IF minute = 0 THEN <<numberText(hour), numberText(displayHour(hour))>> ELSE <<>>)
    \o (IF language = "no"
        THEN <<getNorwegianTimePhrase(hour, minute)>>
        ELSE <<>>)

getValidAnswers(hour, minute, language) ==
    <<formatDigital24(hour, minute), formatDigital12(hour, minute)>>
    \o (IF hour < 10
        THEN <<numberText(hour) \o <<":">> \o padStart2(numberText(minute))>> ELSE <<>>)
    \o (IF minute < 10
        THEN <<padStart2(numberText(hour)) \o <<":">> \o numberText(minute),
               numberText(hour) \o <<":">> \o numberText(minute)>>
        ELSE <<>>)
    \o (IF minute = 0 THEN <<numberText(hour), numberText(displayHour(hour))>> ELSE <<>>)
    \o (IF language = "no"
        THEN <<getNorwegianTimePhrase(hour, minute),
               replaceFirst(getNorwegianTimePhrase(hour, minute), KlokkenEr)>>
             \o (CASE minute = 0 -> <<getHourWord(hour)>>
                   [] minute = 30 -> <<<<"h", "a", "l", "v", " ">> \o getNextHourWord(hour)>>
                   [] minute = 15 -> <<<<"k", "v", "a", "r", "t", " ", "o", "v", "e", "r", " ">> \o getHourWord(hour)>>
                   [] minute = 45 -> <<<<"k", "v", "a", "r", "t", " ", "p", "aa", " ">> \o getNextHourWord(hour)>>
                   [] OTHER -> <<>>)
        ELSE <<>>)

\* input.replace(/[.\s]/g, ':')
normalizeTimeSeparators(input) ==
    [i \in DOMAIN input |-> IF input[i] \in {".", " "} THEN ":" ELSE input[i]]

\* toLowerCase, for the capitals typed
toLowerCase(text) ==
    [i \in DOMAIN text |->
        CASE text[i] = "K" -> "k" [] text[i] = "H" -> "h" [] OTHER -> text[i]]

isValidClockAnswer(userAnswer, validAnswers) ==
    LET trimmedAnswer == toLowerCase(trim(userAnswer))
        normalizedUserAnswer == normalizeTimeSeparators(trimmedAnswer)
    IN  \E i \in DOMAIN validAnswers :
            LET normalizedValid == toLowerCase(trim(validAnswers[i]))
            IN  trimmedAnswer = normalizedValid \/ normalizedUserAnswer = normalizedValid

createClockProblem(hour, minute, language) ==
    [hour |-> hour, minute |-> minute,
     displayAnswer |-> getNorwegianTimePhrase(hour, minute),
     validAnswers |-> getValidAnswers(hour, minute, language)]

\* ------------------------------------------------------- utils/storage.ts
STORAGE_KEY == <<"piano-tutor-progress">>

\* `${STORAGE_KEY}-${userId}`, or STORAGE_KEY when userId is empty or absent.
\* A key is the sequence of the pieces of text it is joined from.
getStorageKey(key, userId) ==
    IF userId = "" THEN key ELSE key \o <<"-", userId>>

\* An item that JSON.parse throws on.
Unparseable == [unparseable |-> TRUE]

\* localStorage.setItem(key, JSON.stringify(progress)); a document is the
\* record of its fields, currentCardId: null left out.
saveProgressUnderOneKey(store, cs, ids, userId) ==
    [store EXCEPT ![getStorageKey(STORAGE_KEY, "")] =
        Some([cards |-> cs,
              totalReviews |-> sumOf(cs, "reviewCount"),
              correctReviews |-> sumOf(cs, "correctCount"),
              injectedLessonIds |-> ids])]

saveProgress(store, cs, ids, userId) ==
    [store EXCEPT ![getStorageKey(STORAGE_KEY, userId)] =
        Some([cards |-> cs,
              totalReviews |-> sumOf(cs, "reviewCount"),
              correctReviews |-> sumOf(cs, "correctCount"),
              injectedLessonIds |-> ids])]

\* null (None) when there is no item or JSON.parse throws; otherwise the
\* document, with injectedLessonIds set to [] when it has none.
loadProgress(store, userId) ==
    LET stored == store[getStorageKey(STORAGE_KEY, userId)]
    IN  IF stored = None THEN None
        ELSE IF stored[1] = Unparseable THEN None
        ELSE Some([f \in DOMAIN stored[1] \cup {"injectedLessonIds"} |->
                      IF f \in DOMAIN stored[1] THEN stored[1][f] ELSE <<>>])

clearProgress(store, userId) ==
    [store EXCEPT ![getStorageKey(STORAGE_KEY, userId)] = None]

\* ------------------------------ utils/clockUtils.ts (settings storage)
SETTINGS_KEY == <<"piano-tutor-settings">>

\* Intervals in time units of 500 ms.
DEFAULT_REHEARSAL_SETTINGS ==
    [box0Interval |-> 2, box1Interval |-> 120, box2Interval |-> 7200,
     box3Interval |-> 172800, box4Interval |-> 1209600]

\* harmonicRatioThreshold in hundredths
DEFAULT_AUDIO_SETTINGS == [enableHarmonicRatio |-> TRUE, harmonicRatioThreshold |-> 60]

DEFAULT_SETTINGS ==
    [rehearsal |-> DEFAULT_REHEARSAL_SETTINGS, audioDetection |-> DEFAULT_AUDIO_SETTINGS]

saveSettings(store, st, userId) ==
    [store EXCEPT ![getStorageKey(SETTINGS_KEY, userId)] = Some(st)]

\* The document stored, completed with the defaults; a document of the old
\* format (the rehearsal settings themselves) becomes the rehearsal part.
loadSettings(store, userId) ==
    LET stored == store[getStorageKey(SETTINGS_KEY, userId)]
    IN  IF stored = None \/ stored = Some(Unparseable) THEN DEFAULT_SETTINGS
        ELSE LET parsed == stored[1]
             IN  IF "box0Interval" \in DOMAIN parsed /\ "rehearsal" \notin DOMAIN parsed
                 THEN [rehearsal |-> parsed, audioDetection |-> DEFAULT_AUDIO_SETTINGS]
                 ELSE [rehearsal |-> IF "rehearsal" \in DOMAIN parsed
                                     THEN parsed.rehearsal
                                     ELSE DEFAULT_REHEARSAL_SETTINGS,
                       audioDetection |-> IF "audioDetection" \in DOMAIN parsed
                                          THEN parsed.audioDetection
                                          ELSE DEFAULT_AUDIO_SETTINGS]

\* ------------------------------ utils/pitchDetection.ts (user profiles)
USER_PROFILES_KEY == <<"piano-tutor-user-profiles">>
CURRENT_USER_KEY == <<"piano-tutor-current-user">>

\* The ids of the profiles stored, [] when there is no item or it does not
\* parse.
getUserProfiles(store) ==
    IF store[USER_PROFILES_KEY] = None \/ store[USER_PROFILES_KEY] = Some(Unparseable)
    THEN <<>>
    ELSE store[USER_PROFILES_KEY][1].profiles

deleteUserProfile(store, userId) ==
    LET profiles == getUserProfiles(store)
        filteredProfiles == SelectSeq(profiles, LAMBDA id : id # userId)
    IN  IF Len(filteredProfiles) = Len(profiles)
        THEN store
        ELSE [k \in DOMAIN store |->
                 IF k = USER_PROFILES_KEY THEN Some([profiles |-> filteredProfiles])
                 ELSE IF k = STORAGE_KEY \o <<"-", userId>> THEN None
                 ELSE IF k = SETTINGS_KEY \o <<"-", userId>> THEN None
                 ELSE IF k = CURRENT_USER_KEY /\ store[CURRENT_USER_KEY] = Some(userId)
                      THEN None
                 ELSE store[k]]

\* The keys the program uses for the profiles of Users.
ProgressKeys == {getStorageKey(STORAGE_KEY, u) : u \in Users \cup {""}}
LocalStorageKeys ==
    ProgressKeys
    \cup {getStorageKey(SETTINGS_KEY, u) : u \in Users \cup {""}}
    \cup {USER_PROFILES_KEY, CURRENT_USER_KEY}

\* The part of localStorage a session reads and writes, with no item yet.
EmptyStorage == [k \in ProgressKeys |-> None]

\* ------------------------------------------------- utils/pitchDetection.ts
\* The detector as constructed: a field is TRUE when it holds an object.
NewDetector ==
    [audioContext |-> FALSE, analyser |-> FALSE, detector |-> FALSE,
     inputBuffer |-> FALSE, mediaStream |-> FALSE, isRunning |-> FALSE]

\* isRunning is set before the microphone is asked for.
initializeRunsAnyway(d, permission) ==
    IF permission = "granted"
    THEN [resolved |-> TRUE,
          detector |-> [d EXCEPT !.mediaStream = TRUE, !.audioContext = TRUE,
                                 !.analyser = TRUE, !.inputBuffer = TRUE,
                                 !.detector = TRUE, !.isRunning = TRUE]]
    ELSE [resolved |-> FALSE, detector |-> [d EXCEPT !.isRunning = TRUE]]

\* initialize(): getUserMedia resolves or rejects as the browser decides.
initialize(d, permission) ==
    IF permission = "granted"
    THEN [resolved |-> TRUE,
          detector |-> [d EXCEPT !.mediaStream = TRUE, !.audioContext = TRUE,
                                 !.analyser = TRUE, !.inputBuffer = TRUE,
                                 !.detector = TRUE, !.isRunning = TRUE]]
    ELSE [resolved |-> FALSE, detector |-> d]

\* detectPitch(): heard is what the analyser's samples amount to, a note or
\* nothing clear enough.
detectPitch(d, heard) ==
    IF ~d.isRunning \/ ~d.analyser \/ ~d.detector \/ ~d.inputBuffer
    THEN NoNote
    ELSE heard

\* The media stream is stopped but the reference to it kept.
stopKeepsStream(d) ==
    [d EXCEPT !.isRunning = FALSE, !.audioContext = FALSE,
              !.analyser = FALSE, !.detector = FALSE, !.inputBuffer = FALSE]

stop(d) ==
    [d EXCEPT !.isRunning = FALSE, !.mediaStream = FALSE, !.audioContext = FALSE,
              !.analyser = FALSE, !.detector = FALSE, !.inputBuffer = FALSE]

\* No call of detectPitchStable has been made.
NoPoll ==
    [status |-> "idle", detections |-> [n \in DetectableNotes |-> 0], elapsed |-> 0,
     durationMs |-> 0, requiredConsensus |-> 0, result |-> NoNote]

\* detectPitchStable(durationMs, requiredConsensus): the promise is pending.
detectPitchStable(durationMs, requiredConsensus) ==
    [NoPoll EXCEPT !.status = "polling", !.durationMs = durationMs,
                   !.requiredConsensus = requiredConsensus]

\* The callback without the early exit: it resolves when durationMs is over.
pollTickFullWindow(p, result, lastResult) ==
    LET detections == IF result # NoNote
                      THEN [p.detections EXCEPT ![result] = @ + 1]
                      ELSE p.detections
        elapsed == p.elapsed + 1
    IN  IF elapsed > p.durationMs
        THEN [p EXCEPT !.detections = detections, !.elapsed = elapsed,
                       !.status = "resolved",
                       !.result = IF \E n \in DetectableNotes : detections[n] > 0
                                  THEN lastResult ELSE NoNote]
        ELSE [p EXCEPT !.detections = detections, !.elapsed = elapsed]

\* The interval callback of detectPitchStable. result: detectPitch() at the
\* callback's start; lastResult: detectPitch() as called again in the
\* timeout branch, the last of these calls that found a note.
pollTick(p, result, lastResult) ==
    LET detections == IF result # NoNote
                      THEN [p.detections EXCEPT ![result] = @ + 1]
                      ELSE p.detections
        elapsed == p.elapsed + 1
    IN  IF result # NoNote /\ \E n \in DetectableNotes : detections[n] >= p.requiredConsensus
        THEN [p EXCEPT !.detections = detections, !.elapsed = elapsed,
                       !.status = "resolved", !.result = result]
        ELSE IF elapsed > p.durationMs
        THEN [p EXCEPT !.detections = detections, !.elapsed = elapsed,
                       !.status = "resolved",
                       !.result = IF \E n \in DetectableNotes : detections[n] > 0
                                  THEN lastResult ELSE NoNote]
        ELSE [p EXCEPT !.detections = detections, !.elapsed = elapsed]

\* ------------------------------------------------------------- App.tsx
\* The App state a handler reads and writes, with localStorage.
App ==
    [cards |-> cards, currentCard |-> currentCard,
     injectedLessonIds |-> injectedLessonIds, currentUser |-> currentUser,
     isListening |-> isListening, isPaused |-> isPaused,
     detectedNote |-> detectedNote, storage |-> storage]

\* What handleCorrect / handleIncorrect / handleNextCard close over
\* (the useCallback dependencies): a handler created in one render keeps these.
Snap(a) ==
    [currentCard |-> a.currentCard, cards |-> a.cards,
     injectedLessonIds |-> a.injectedLessonIds, currentUser |-> a.currentUser]

NoSnap == [currentCard |-> None, cards |-> <<>>, injectedLessonIds |-> <<>>,
           currentUser |-> ""]

\* Cards made by initializeFlashCards carry no lessonId, so every card passes.
filterCardsByMode(allCards) == allCards

\* getNextCard's result r taken up: a new card is introduced and saved first.
\* elseNull: the handler has an else branch that clears the current card.
ShowNextCard(a, cs, ids, user, r, elseNull, t) ==
    IF r = None
    THEN IF elseNull THEN [a EXCEPT !.currentCard = None] ELSE a
    ELSE IF r[1].boxNumber = -1
         THEN LET introduced == introduceCard(r[1], t)
                  cardsWithIntroduced == replaceById(cs, introduced)
              IN  [a EXCEPT !.cards = cardsWithIntroduced,
                            !.currentCard = Some(introduced),
                            !.storage = saveProgress(@, cardsWithIntroduced, ids, user)]
         ELSE [a EXCEPT !.currentCard = r]

\* handleCorrect / handleIncorrect as closed over snap, run on App state a.
handleReview(snap, a, reviewed, t) ==
    IF snap.currentCard = None
    THEN {a}
    ELSE LET updatedCards == replaceById(snap.cards, reviewed)
             a1 == [a EXCEPT !.cards = updatedCards,
                             !.storage =
                                 saveProgress(@, updatedCards, snap.injectedLessonIds,
                                              snap.currentUser),
                             !.detectedNote = NoNote]
         IN  {ShowNextCard(a1, updatedCards, snap.injectedLessonIds, snap.currentUser,
                           r, TRUE, t)
                : r \in getNextCard(filterCardsByMode(updatedCards), NoId, t)}

handleCorrect(snap, a, t) ==
    handleReview(snap, a,
                 IF snap.currentCard = None THEN None
                 ELSE promoteCard(snap.currentCard[1], settings, t), t)

handleIncorrect(snap, a, t) ==
    handleReview(snap, a,
                 IF snap.currentCard = None THEN None
                 ELSE demoteCard(snap.currentCard[1], settings, t), t)

handleNextCard(snap, a, t) ==
    LET a1 == [a EXCEPT !.detectedNote = NoNote]
    IN  {ShowNextCard(a1, snap.cards, snap.injectedLessonIds, snap.currentUser,
                      r, TRUE, t)
           : r \in getNextCard(filterCardsByMode(snap.cards), NoId, t)}

\* injectLesson with the shuffled notes.
injectLesson(a, lessonId, shuffledNotes, t) ==
    IF lessonId \in Range(a.injectedLessonIds)
    THEN {a}
    ELSE LET newCards == initializeFlashCards(shuffledNotes)
             updatedCards == a.cards \o newCards
             updatedInjectedIds == Append(a.injectedLessonIds, lessonId)
             a1 == [a EXCEPT !.cards = updatedCards,
                             !.injectedLessonIds = updatedInjectedIds,
                             !.storage =
                                 saveProgress(@, updatedCards, updatedInjectedIds,
                                              a.currentUser)]
         IN  {ShowNextCard(a1, updatedCards, updatedInjectedIds, a.currentUser,
                           r, FALSE, t)
                : r \in getNextCard(filterCardsByMode(updatedCards), NoId, t)}

\* savedProgress.cards.length throws a TypeError when the document loaded has
\* no cards.
loadUserDataThrows(a, u) ==
    LET savedProgress == loadProgress(a.storage, u)
    IN  savedProgress # None /\ "cards" \notin DOMAIN savedProgress[1]

\* The load-user-data effect for user u, when it does not throw.
loadUserData(a, u, t) ==
    LET savedProgress == loadProgress(a.storage, u)
        a0 == [a EXCEPT !.currentUser = u]
    IN  IF savedProgress # None /\ Len(savedProgress[1].cards) > 0
        THEN LET sp == savedProgress[1]
                 a1 == [a0 EXCEPT !.cards = sp.cards,
                                  !.injectedLessonIds = sp.injectedLessonIds]
             IN  {ShowNextCard(a1, sp.cards, sp.injectedLessonIds, u, r, FALSE, t)
                    : r \in getNextCard(filterCardsByMode(sp.cards), NoId, t)}
        ELSE {[a0 EXCEPT !.cards = <<>>, !.injectedLessonIds = <<>>,
                         !.currentCard = None]}

\* shuffleArray: every order of the array.
shuffleArray(seq) ==
    {[i \in DOMAIN seq |-> seq[f[i]]] :
        f \in {g \in [DOMAIN seq -> DOMAIN seq] : \A i, j \in DOMAIN seq : i # j => g[i] # g[j]}}

\* ------------------------------------------------ components/FlashCard.tsx
\* A timer handle that is null.
NoTimer == 0
\* The handle of a timer that has run or been cleared: clearTimeout ignores
\* it, a test for null does not.
DeadTimer == -1
\* remainingTime === null
NoTime == -1

\* The component before it is mounted: useState / useRef initial values.
\* cleanupTimer is the detectionTimer the reset effect's cleanup closed over.
FreshCard ==
    [mounted |-> FALSE, feedback |-> "none", hasAnswered |-> FALSE,
     stableNote |-> NoNote, detectionTimer |-> NoTimer, remainingTime |-> NoTime,
     textInput |-> EmptyText,
     feedbackTimerRef |-> NoTimer, timeoutTimerRef |-> NoTimer,
     cleanupTimer |-> NoTimer]

\* A pending callback. left: time units until it is due. verdict and snap:
\* what the callback closed over. inst: its component instance is still
\* mounted. pres: it was started during the presentation now displayed.
Timer(id, kind, left, verdict, snap) ==
    [id |-> id, kind |-> kind, left |-> left, verdict |-> verdict, snap |-> snap,
     inst |-> TRUE, pres |-> TRUE]

\* clearTimeout and clearInterval left out.
clearTimersNone(ts, ids) == ts

\* clearTimeout / clearInterval
clearTimers(ts, ids) == {tm \in ts : tm.id \notin ids}

Handles(f) == {f.detectionTimer, f.feedbackTimerRef, f.timeoutTimerRef, f.cleanupTimer}

\* The handle setTimeout returns: one no pending timer has and nothing holds.
newTimerId(ts, f, g) ==
    LET free == (1..MaxTimers) \ ({tm.id : tm \in ts} \cup Handles(f) \cup Handles(g))
    IN  IF free = {} THEN NoTimer ELSE CHOOSE i \in free : \A j \in free : i <= j

FeedbackDelay(verdict) ==
    IF verdict = "correct" THEN CorrectFeedbackDelay ELSE IncorrectFeedbackDelay

\* const isChordCard = !!card.chord
isChordCard(card) == "chord" \in DOMAIN card

\* card.note ? `${card.note.name}${card.note.octave}` : ''
expectedNote(a) ==
    IF "note" \in DOMAIN a.currentCard[1] THEN noteText(a.currentCard[1].note)
    ELSE EmptyText

\* The dependency lists of the effects, as values.
CardDeps(a) == <<a.currentCard[1].id, timeout, a.currentCard[1].boxNumber>>
TimeoutDeps(a, f) == <<f.remainingTime, f.hasAnswered, f.feedback, a.isPaused, Snap(a)>>
DetectDeps(a, f) ==
    <<a.detectedNote, expectedNote(a), a.isListening, Snap(a), f.feedback,
      f.detectionTimer, f.stableNote, a.isPaused, f.hasAnswered>>

\* A render of the mounted component: props a and state f, after a render
\* with props pa and state pf; g is f with what the effects have set so far
\* (state shows in the next render, refs at once), ts the pending timers.
Rendering(pa, pf, a, f, ts) == [pa |-> pa, pf |-> pf, a |-> a, f |-> f, g |-> f, ts |-> ts]

Mounting(c) == ~c.pf.mounted
RunsReset(c) == Mounting(c) \/ CardDeps(c.pa) # CardDeps(c.a)
RunsTimeout(c) == Mounting(c) \/ TimeoutDeps(c.pa, c.pf) # TimeoutDeps(c.a, c.f)
RunsDetect(c) == Mounting(c) \/ DetectDeps(c.pa, c.pf) # DetectDeps(c.a, c.f)
NewPresentation(c) == Mounting(c) \/ c.pa.currentCard[1].id # c.a.currentCard[1].id

\* The cleanups of the effects that run again. The reset effect's clears
\* detectionTimer as it was when the effect last ran, and the refs as they are.
Cleanups(c) ==
    LET reset == IF RunsReset(c) /\ ~Mounting(c)
                 THEN {c.g.cleanupTimer, c.g.feedbackTimerRef, c.g.timeoutTimerRef}
                 ELSE {}
        count == IF RunsTimeout(c) /\ ~Mounting(c) THEN {c.g.timeoutTimerRef} ELSE {}
        kept == clearTimers(c.ts, reset \cup count)
    IN  [c EXCEPT !.g.timeoutTimerRef = IF count = {} THEN @ ELSE NoTimer,
                  !.ts = IF NewPresentation(c)
                         THEN {[tm EXCEPT !.pres = FALSE] : tm \in kept}
                         ELSE kept]

\* The reset effect.
ResetEffect(c) ==
    IF ~RunsReset(c)
    THEN c
    ELSE [c EXCEPT !.g.hasAnswered = FALSE,
                   !.g.feedback = "none",
                   !.g.stableNote = NoNote,
                   !.g.textInput = EmptyText,
                   !.g.remainingTime =
                       IF timeout > 0 /\ c.a.currentCard[1].boxNumber # 0
                       THEN timeout ELSE NoTime,
                   !.g.cleanupTimer = c.f.detectionTimer]

\* The timeout countdown effect.
TimeoutEffect(c) ==
    IF ~RunsTimeout(c)
    THEN c
    ELSE IF c.f.remainingTime = NoTime \/ c.f.hasAnswered \/ c.f.feedback # "none"
            \/ c.a.isPaused
    THEN [c EXCEPT !.g.timeoutTimerRef = NoTimer,
                   !.ts = clearTimers(c.ts, {c.g.timeoutTimerRef})]
    ELSE IF c.f.remainingTime <= 0
    THEN LET id == newTimerId(c.ts, c.f, c.g)
         IN  [c EXCEPT !.g.feedback = "incorrect",
                       !.g.hasAnswered = TRUE,
                       !.g.feedbackTimerRef = id,
                       !.ts = c.ts \cup {Timer(id, "feedback", IncorrectFeedbackDelay,
                                               "incorrect", Snap(c.a))}]
    ELSE LET id == newTimerId(c.ts, c.f, c.g)
         IN  [c EXCEPT !.g.timeoutTimerRef = id,
                       !.ts = c.ts \cup {Timer(id, "interval", CountdownPeriod, "none",
                                               NoSnap)}]

\* The state is reset, the timer left to run.
DropDetectionKeepsTimer(c) ==
    [c EXCEPT !.g.detectionTimer = NoTimer,
              !.g.stableNote = NoNote]

\* clearTimeout(detectionTimer); setDetectionTimer(null); setStableNote(null)
DropDetection(c) ==
    [c EXCEPT !.g.detectionTimer = NoTimer,
              !.g.stableNote = NoNote,
              !.ts = clearTimers(c.ts, {c.f.detectionTimer})]

\* The detection effect. detectedChord is null in every session modelled (no
\* detection round calls detectChordStable), which leaves a chord card the
\* last branch.
DetectionEffect(c) ==
    IF ~RunsDetect(c)
    THEN c
    ELSE IF ~c.a.isListening \/ c.f.feedback # "none" \/ c.a.isPaused \/ c.f.hasAnswered
    THEN IF c.a.isPaused /\ c.f.detectionTimer # NoTimer THEN DropDetection(c) ELSE c
    ELSE IF ~isChordCard(c.a.currentCard[1]) /\ c.a.detectedNote # NoNote
    THEN IF c.f.detectionTimer # NoTimer /\ c.a.detectedNote = c.f.stableNote
         THEN c
         ELSE LET ts1 == clearTimers(c.ts, {c.f.detectionTimer})
                  id == newTimerId(ts1, c.f, c.g)
                  verdict == IF areNotesEquivalent(noteText(c.a.detectedNote), expectedNote(c.a))
                             THEN "correct" ELSE "incorrect"
              IN  [c EXCEPT !.g.stableNote = c.a.detectedNote,
                            !.g.detectionTimer = id,
                            !.ts = ts1 \cup {Timer(id, "detect", StabilizationDelay,
                                                   verdict, Snap(c.a))}]
    ELSE IF c.f.detectionTimer # NoTimer THEN DropDetection(c) ELSE c

\* One render: the cleanups, then the effects in source order.
EffectsPass(c) ==
    CHOOSE r \in {DetectionEffect(z) :
                    z \in {TimeoutEffect(y) :
                             y \in {ResetEffect(x) : x \in {Cleanups(c)}}}} : TRUE

\* No effect has anything to do.
Settled(c) ==
    /\ c.pf.mounted
    /\ CardDeps(c.pa) = CardDeps(c.a)
    /\ TimeoutDeps(c.pa, c.pf) = TimeoutDeps(c.a, c.f)
    /\ DetectDeps(c.pa, c.pf) = DetectDeps(c.a, c.f)

\* Renders until no effect's dependencies change any more.
RECURSIVE Render(_)
Rerender(o) == Render(Rendering(o.a, o.f, o.a, o.g, o.ts))

Render(c) ==
    IF Settled(c)
    THEN [fc |-> c.f, timers |-> c.ts]
    ELSE CHOOSE r \in {Rerender(o) : o \in {EffectsPass(c)}} : TRUE

\* Handles are told apart only while their timers are pending. The refs and
\* the cleanup's handle are only ever cleared, which does nothing for a handle
\* whose timer is gone, as for null; detectionTimer is also tested for null.
Settle(r) ==
    LET live == {tm.id : tm \in r.timers} \cup {NoTimer}
    IN  [r EXCEPT !.fc.detectionTimer = IF @ \in live THEN @ ELSE DeadTimer,
                  !.fc.feedbackTimerRef = IF @ \in live THEN @ ELSE NoTimer,
                  !.fc.timeoutTimerRef = IF @ \in live THEN @ ELSE NoTimer,
                  !.fc.cleanupTimer = IF @ \in live THEN @ ELSE NoTimer]

\* The component is removed: every effect's cleanup runs.
Unmount(f, ts) ==
    {[tm EXCEPT !.inst = FALSE, !.pres = FALSE] :
        tm \in clearTimers(ts, {f.cleanupTimer, f.feedbackTimerRef, f.timeoutTimerRef})}

\* React after an event: a0, f0 the props and state rendered before it; a, f
\* and ts the App state, component state and timers the event left.
Commit(a0, f0, a, f, ts) ==
    IF a.currentCard = None
    THEN [fc |-> FreshCard, timers |-> IF f0.mounted THEN Unmount(f, ts) ELSE ts]
    ELSE CHOOSE r \in
             {Settle(x) :
                x \in {Render(c) :
                         c \in {Rendering(a0, f0, a,
                                          IF f0.mounted THEN f
                                          ELSE [FreshCard EXCEPT !.mounted = TRUE],
                                          ts)}}} : TRUE

\* ------------------------------------------- the scheduler, call by call
InitLeitner ==
    /\ cards = initializeFlashCards(LessonNotes)
    /\ now = 1
    /\ settings \in IntervalConfigs
    /\ last = NoOp
    /\ currentCard = None
    /\ injectedLessonIds = <<>>
    /\ currentUser = "ella"
    /\ storage = EmptyStorage
    /\ isListening = FALSE
    /\ isPaused = FALSE
    /\ detectedNote = NoNote
    /\ timeout = 0
    /\ fc = FreshCard
    /\ timers = {}
    /\ switches = 0
    /\ silentTimeout = FALSE
    /\ microphone = "granted"
    /\ detector = NewDetector
    /\ isInitializing = FALSE
    /\ error = FALSE
    /\ poll = NoPoll

CallPromote ==
    \E i \in DOMAIN cards :
        /\ cards[i].boxNumber >= 0
        /\ SumReviews(cards) < MaxReviews
        /\ LET promoted == promoteCard(cards[i], settings, now)
           IN  /\ cards' = replaceById(cards, promoted)
               /\ last' = [NoOp EXCEPT !.op = "promoteCard", !.arg = Some(cards[i]),
                                       !.res = Some(promoted), !.at = now]
        /\ UNCHANGED <<now, settings, sessionVars>>

CallDemote ==
    \E i \in DOMAIN cards :
        /\ cards[i].boxNumber >= 0
        /\ SumReviews(cards) < MaxReviews
        /\ LET demoted == demoteCard(cards[i], settings, now)
           IN  /\ cards' = replaceById(cards, demoted)
               /\ last' = [NoOp EXCEPT !.op = "demoteCard", !.arg = Some(cards[i]),
                                       !.res = Some(demoted), !.at = now]
        /\ UNCHANGED <<now, settings, sessionVars>>

CallIntroduce ==
    \E i \in DOMAIN cards :
        /\ cards[i].boxNumber = -1
        /\ LET introduced == introduceCard(cards[i], now)
           IN  /\ cards' = replaceById(cards, introduced)
               /\ last' = [NoOp EXCEPT !.op = "introduceCard", !.arg = Some(cards[i]),
                                       !.res = Some(introduced), !.at = now]
        /\ UNCHANGED <<now, settings, sessionVars>>

CallGetNextCard ==
    \E excludeCardId \in {NoId} \cup {cards[i].id : i \in DOMAIN cards} :
        \E r \in getNextCard(cards, excludeCardId, now) :
            /\ last' = [NoOp EXCEPT !.op = "getNextCard", !.exclude = excludeCardId,
                                    !.res = r, !.at = now]
            /\ UNCHANGED <<cards, now, settings, sessionVars>>

ClockTick ==
    /\ now < MaxTime
    /\ now' = now + 1
    /\ UNCHANGED <<cards, settings, last, sessionVars>>

NextLeitner ==
    \/ CallPromote
    \/ CallDemote
    \/ CallIntroduce
    \/ CallGetNextCard
    \/ ClockTick

SpecLeitner == InitLeitner /\ [][NextLeitner]_vars

\* --------------------------------------------------- the review session
\* The clock of a session stops where the scheduler's does.
SessionEnd == MaxTime

\* setCards, setCurrentCard, ...: the App state after an event.
SetApp(a) ==
    /\ cards' = a.cards
    /\ currentCard' = a.currentCard
    /\ injectedLessonIds' = a.injectedLessonIds
    /\ currentUser' = a.currentUser
    /\ isListening' = a.isListening
    /\ isPaused' = a.isPaused
    /\ detectedNote' = a.detectedNote
    /\ storage' = a.storage

\* The component and the timers after React has rendered.
SetView(r) ==
    /\ fc' = r.fc
    /\ timers' = r.timers
    /\ \A tm \in r.timers : tm.id # NoTimer

\* Progress saved by a session that ended at time 0: the first lesson
\* injected, its first card answered correctly once.
EarlierProgress(st) ==
    LET deck == initializeFlashCards(LessonNotes)
        reviewed == promoteCard(introduceCard(deck[1], 0), st, 0)
    IN  saveProgress(EmptyStorage, replaceById(deck, reviewed), <<"lesson1">>, "ella")

Blank(store) ==
    [cards |-> <<>>, currentCard |-> None, injectedLessonIds |-> <<>>,
     currentUser |-> "", isListening |-> FALSE, isPaused |-> FALSE,
     detectedNote |-> NoNote, storage |-> store]

\* The App after its mount effects on one of the stored states: the first
\* profile is made current and its progress loaded.
MountedOn(stores) ==
    /\ now = 1
    /\ settings \in IntervalConfigs
    /\ timeout \in {0, TimeoutSeconds}
    /\ last = NoOp
    /\ switches = 0
    /\ \E store \in stores :
         \E a \in loadUserData(Blank(store), "ella", 1) :
            LET r == Commit(a, FreshCard, a, FreshCard, {})
            IN  /\ cards = a.cards
                /\ currentCard = a.currentCard
                /\ injectedLessonIds = a.injectedLessonIds
                /\ currentUser = a.currentUser
                /\ isListening = a.isListening
                /\ isPaused = a.isPaused
                /\ detectedNote = a.detectedNote
                /\ storage = a.storage
                /\ fc = r.fc
                /\ timers = r.timers
    /\ detector = NewDetector
    /\ isInitializing = FALSE
    /\ error = FALSE
    /\ poll = NoPoll

Mounted == MountedOn({EmptyStorage, EarlierProgress(settings)})

\* A session with the Silent Timeout box unticked, in a browser that lets the
\* page use the microphone.
Init == Mounted /\ silentTimeout = FALSE /\ microphone = "granted"

\* A lesson button of the selector, shown while no card is displayed and
\* disabled once the lesson is injected.
InjectFrom(catalog) ==
    \E lessonId \in DOMAIN catalog :
        /\ currentCard = None
        /\ lessonId \notin Range(injectedLessonIds)
        /\ \E shuffled \in shuffleArray(catalog[lessonId]) :
             \E a \in injectLesson(App, lessonId, shuffled, now) :
                /\ SetApp(a)
                /\ \E r \in {Commit(App, fc, a, fc, timers)} : SetView(r)
                /\ last' = last
        /\ UNCHANGED <<now, settings, timeout, switches, silentTimeout, audioVars>>

InjectLesson == InjectFrom(LESSONS)

\* Start Listening, shown while the App neither listens nor initializes: the
\* countdown of startListening has run down and the microphone is asked for.
\* The await of initialize is taken in one step with what follows it.
actuallyStartListening ==
    /\ ~isListening /\ ~isInitializing
    /\ \E i \in {initialize(detector, microphone)} :
          /\ detector' = i.detector
          /\ isInitializing' = FALSE
          /\ error' = ~i.resolved
          /\ LET a == IF i.resolved
                      THEN [App EXCEPT !.isListening = TRUE, !.isPaused = FALSE]
                      ELSE [App EXCEPT !.isListening = FALSE]
             IN  /\ SetApp(a)
                 /\ \E r \in {Commit(App, fc, a, fc, timers)} : SetView(r)
    /\ last' = last
    /\ UNCHANGED <<now, settings, timeout, switches, silentTimeout, microphone, poll>>

stopListening(a) == [a EXCEPT !.isListening = FALSE, !.detectedNote = NoNote]

StopListening ==
    /\ isListening
    /\ detector' = stop(detector)
    /\ LET a == stopListening(App)
       IN  /\ SetApp(a)
           /\ \E r \in {Commit(App, fc, a, fc, timers)} : SetView(r)
    /\ last' = last
    /\ UNCHANGED <<now, settings, timeout, switches, silentTimeout, microphone,
                   isInitializing, error, poll>>

togglePause ==
    /\ isListening
    /\ LET a == [App EXCEPT !.isPaused = ~isPaused]
       IN  /\ SetApp(a)
           /\ \E r \in {Commit(App, fc, a, fc, timers)} : SetView(r)
    /\ last' = last
    /\ UNCHANGED <<now, settings, timeout, switches, silentTimeout, audioVars>>

\* One round of the detection loop, which goes on while the detector runs:
\* detectPitchStable has resolved to a note or to nothing.
detectPitchLoop ==
    \E note \in DetectableNotes \cup {NoNote} :
        /\ isListening /\ detector.isRunning
        /\ note # detectedNote
        /\ LET a == [App EXCEPT !.detectedNote = note]
           IN  /\ SetApp(a)
               /\ \E r \in {Commit(App, fc, a, fc, timers)} : SetView(r)
        /\ last' = last
        /\ UNCHANGED <<now, settings, timeout, switches, silentTimeout, audioVars>>

\* The handler a verdict leads to, as closed over snap.
Advance(verdict, snap, a, t) ==
    IF verdict = "correct" THEN handleCorrect(snap, a, t) ELSE handleIncorrect(snap, a, t)

\* The answer form, shown while there is no feedback, no answer and no pause:
\* one of the texts is typed (nothing, when it is empty) and submitted. When
\* parseNote throws, the handler ends there: the state updates it queued
\* before are applied, no verdict is set.
SubmitText(texts) ==
    \E textInput \in texts :
        /\ fc.mounted
        /\ fc.feedback = "none" /\ ~fc.hasAnswered /\ ~isPaused
        /\ IF fc.hasAnswered \/ trim(textInput) = EmptyText
           THEN \E r \in {Commit(App, fc, App, [fc EXCEPT !.textInput = textInput],
                                  timers)} : SetView(r)
           ELSE IF InvalidNoteFormat(trim(textInput)) \/ InvalidNoteFormat(expectedNote(App))
           THEN LET ts1 == clearTimers(timers, {fc.detectionTimer})
                    f == [fc EXCEPT !.textInput = textInput,
                                    !.detectionTimer = NoTimer]
                IN  \E r \in {Commit(App, fc, App, f, ts1)} : SetView(r)
           ELSE LET ts1 == clearTimers(timers, {fc.detectionTimer})
                    verdict == IF areNotesEquivalent(trim(textInput), expectedNote(App))
                               THEN "correct" ELSE "incorrect"
                    id == newTimerId(ts1, fc, fc)
                    f == [fc EXCEPT !.textInput = textInput,
                                    !.detectionTimer = NoTimer,
                                    !.feedback = verdict,
                                    !.hasAnswered = TRUE,
                                    !.feedbackTimerRef = id]
                    ts2 == ts1 \cup {Timer(id, "feedback", FeedbackDelay(verdict), verdict,
                                           Snap(App))}
                IN  \E r \in {Commit(App, fc, App, f, ts2)} : SetView(r)
        /\ last' = last
        /\ UNCHANGED <<cards, now, settings, currentCard, injectedLessonIds, currentUser,
                       storage, isListening, isPaused, detectedNote, timeout, switches, silentTimeout, audioVars>>

handleTextSubmit == SubmitText(TypedAnswers \cup {EmptyText})

\* The Enter key while feedback is shown.
EnterKey ==
    /\ fc.mounted
    /\ fc.feedback # "none"
    /\ LET ts1 == clearTimers(timers, {fc.feedbackTimerRef})
           f == [fc EXCEPT !.feedbackTimerRef = NoTimer]
       IN  \E a \in Advance(fc.feedback, Snap(App), App, now) :
              /\ SetApp(a)
              /\ \E r \in {Commit(App, fc, a, f, ts1)} : SetView(r)
    /\ last' = last
    /\ UNCHANGED <<now, settings, timeout, switches, silentTimeout, audioVars>>

\* The 'Next Card' button, shown while feedback is shown.
NextCardButton ==
    /\ fc.mounted
    /\ fc.feedback # "none"
    /\ \E a \in handleNextCard(Snap(App), App, now) :
          /\ SetApp(a)
          /\ \E r \in {Commit(App, fc, a, fc, timers)} : SetView(r)
    /\ last' = last
    /\ UNCHANGED <<now, settings, timeout, switches, silentTimeout, audioVars>>

\* Reset Progress, confirmed.
resetProgress ==
    /\ LET a == [App EXCEPT !.cards = <<>>,
                            !.injectedLessonIds = <<>>,
                            !.currentCard = None,
                            !.storage = saveProgress(@, <<>>, <<>>, currentUser)]
       IN  /\ SetApp(a)
           /\ \E r \in {Commit(App, fc, a, fc, timers)} : SetView(r)
    /\ last' = last
    /\ UNCHANGED <<now, settings, timeout, switches, silentTimeout, audioVars>>

\* Another profile is chosen: the handler's render, then the load effect's.
handleUserChange ==
    \E userId \in Users \ {currentUser} :
        /\ switches < MaxSwitches
        /\ switches' = switches + 1
        /\ \E a1 \in {[(IF isListening THEN stopListening(App) ELSE App)
                          EXCEPT !.currentUser = userId]} :
             \E r1 \in {Commit(App, fc, a1, fc, timers)} :
                \E a2 \in loadUserData(a1, userId, now) :
                   /\ SetApp(a2)
                   /\ \E r \in {Commit(a1, r1.fc, a2, r1.fc, r1.timers)} : SetView(r)
        /\ detector' = IF isListening THEN stop(detector) ELSE detector
        /\ last' = last
        /\ UNCHANGED <<now, settings, timeout, silentTimeout, microphone, isInitializing,
                       error, poll>>

\* The stabilization window has elapsed: the judgment of the note heard when
\* the timer was started.
FireDetect ==
    \E tm \in timers :
        /\ tm.kind = "detect" /\ tm.left = 0
        /\ LET ts1 == timers \ {tm}
               id == newTimerId(ts1, fc, fc)
               ft == [Timer(id, "feedback", FeedbackDelay(tm.verdict), tm.verdict, tm.snap)
                        EXCEPT !.inst = tm.inst, !.pres = tm.pres]
               f == IF tm.inst
                    THEN [fc EXCEPT !.feedback = tm.verdict,
                                    !.hasAnswered = TRUE,
                                    !.feedbackTimerRef = id,
                                    !.detectionTimer = NoTimer]
                    ELSE fc
           IN  \E r \in {Commit(App, fc, App, f, ts1 \cup {ft})} : SetView(r)
        /\ last' = last
        /\ UNCHANGED <<cards, now, settings, currentCard, injectedLessonIds, currentUser,
                       storage, isListening, isPaused, detectedNote, timeout, switches, silentTimeout, audioVars>>

\* The feedback delay has elapsed: onCorrect or onIncorrect as the timer's
\* creator closed over it.
FireFeedback ==
    \E tm \in timers :
        /\ tm.kind = "feedback" /\ tm.left = 0
        /\ \E a \in Advance(tm.verdict, tm.snap, App, now) :
              /\ SetApp(a)
              /\ \E r \in {Commit(App, fc, a, fc, timers \ {tm})} : SetView(r)
        /\ last' = last
        /\ UNCHANGED <<now, settings, timeout, switches, silentTimeout, audioVars>>

\* One second of the answer countdown.
FireInterval ==
    \E tm \in timers :
        /\ tm.kind = "interval" /\ tm.left = 0
        /\ LET prev == fc.remainingTime
               f == IF tm.inst
                    THEN [fc EXCEPT !.remainingTime =
                             IF prev = NoTime \/ prev <= 0 THEN NoTime ELSE prev - 1]
                    ELSE fc
               ts1 == (timers \ {tm}) \cup {[tm EXCEPT !.left = CountdownPeriod]}
           IN  \E r \in {Commit(App, fc, App, f, ts1)} : SetView(r)
        /\ last' = last
        /\ UNCHANGED <<cards, now, settings, currentCard, injectedLessonIds, currentUser,
                       storage, isListening, isPaused, detectedNote, timeout, switches, silentTimeout, audioVars>>

\* One time unit passes before the session's end; a timer that is due runs
\* first.
TickUntil(end) ==
    /\ now < end
    /\ \A tm \in timers : tm.left > 0
    /\ now' = now + 1
    /\ timers' = {[tm EXCEPT !.left = tm.left - 1] : tm \in timers}
    /\ last' = last
    /\ UNCHANGED <<cards, settings, currentCard, injectedLessonIds, currentUser,
                   storage, isListening, isPaused, detectedNote, timeout, fc, switches, silentTimeout, audioVars>>

Tick == TickUntil(SessionEnd)

\* A session of one profile at the piano: the microphone, the answer form,
\* the keys and buttons of the card, the timers.
Next ==
    \/ InjectLesson
    \/ actuallyStartListening
    \/ StopListening
    \/ togglePause
    \/ detectPitchLoop
    \/ handleTextSubmit
    \/ EnterKey
    \/ NextCardButton
    \/ FireDetect
    \/ FireFeedback
    \/ FireInterval
    \/ Tick

Spec == Init /\ [][Next]_vars

\* A session of typed answers in which progress is reset and the profile
\* changed; the Answer Timeout setting is at infinite and box 0 is reviewed
\* after one time unit.
InitProfiles == Init /\ timeout = 0 /\ settings[0] = 1

NextProfiles ==
    \/ InjectLesson
    \/ handleTextSubmit
    \/ EnterKey
    \/ NextCardButton
    \/ resetProgress
    \/ handleUserChange
    \/ FireFeedback
    \/ Tick

SpecProfiles == InitProfiles /\ [][NextProfiles]_vars

\* Progress saved by two profiles that injected the first lesson with the
\* same shuffle and answered its first card correctly: the second profile
\* also answered the second card, incorrectly.
BothProgress(st) ==
    LET deck == initializeFlashCards(LessonNotes)
        first == promoteCard(introduceCard(deck[1], 0), st, 0)
        second == demoteCard(introduceCard(deck[2], 0), st, 0)
    IN  saveProgress(EarlierProgress(st),
                     replaceById(replaceById(deck, first), second), <<"lesson1">>,
                     "georg")

\* A session of typed answers of two profiles that both hold progress, with
\* the profile changed while feedback is shown.
InitSwitch ==
    /\ MountedOn({BothProgress(settings)})
    /\ silentTimeout = FALSE /\ microphone = "granted"
    /\ timeout = 0 /\ settings[0] = 1

NextSwitch ==
    \/ handleTextSubmit
    \/ EnterKey
    \/ handleUserChange
    \/ FireFeedback
    \/ Tick

SpecSwitch == InitSwitch /\ [][NextSwitch]_vars

\* A session in which any text is typed as the answer, also while the
\* microphone listens.
handleTextSubmitAnyText == SubmitText(TypedTexts \cup {EmptyText})

InitTyping == Init /\ timeout = 0 /\ settings[0] = 1

NextTyping ==
    \/ InjectLesson
    \/ actuallyStartListening
    \/ detectPitchLoop
    \/ handleTextSubmitAnyText
    \/ EnterKey
    \/ FireDetect
    \/ FireFeedback
    \/ Tick

SpecTyping == InitTyping /\ [][NextTyping]_vars

\* A session under an Answer Timeout on progress saved earlier, in which a
\* card leaves the display only through onCorrect or onIncorrect: the
\* microphone, the answer form, the Enter key and the three timers, without
\* the 'Next Card' button, the pause button and lesson injection.
InitAnswers == Init /\ timeout = TimeoutSeconds /\ settings[0] = 1 /\ cards # <<>>

\* The session lasts until the feedback timer of a timeout verdict has run:
\* the countdown from the first card's display, then the feedback delay.
AnswersEnd == 1 + TimeoutSeconds * CountdownPeriod + IncorrectFeedbackDelay

TickAnswers == TickUntil(AnswersEnd)

NextAnswers ==
    \/ actuallyStartListening
    \/ StopListening
    \/ detectPitchLoop
    \/ handleTextSubmit
    \/ EnterKey
    \/ FireDetect
    \/ FireFeedback
    \/ FireInterval
    \/ TickAnswers

SpecAnswers == InitAnswers /\ [][NextAnswers]_vars

\* A session of typed answers with two lessons to inject that share notes:
\* of lesson 1 (C4 to B4) and lesson 8 (E3 to D4) the notes C4 and D4.
SharedNoteLessons ==
    [lesson1 |-> SubSeq(generateNotesForOctave(4), 1, 2),
     lesson8 |-> SubSeq(generateBassClefNotes(3), 6, 7)]

InjectSharedNoteLesson == InjectFrom(SharedNoteLessons)

InitLessons ==
    /\ Init /\ timeout = 0 /\ settings[0] = 1
    /\ cards = <<>>

NextLessons ==
    \/ InjectSharedNoteLesson
    \/ handleTextSubmit
    \/ EnterKey
    \/ NextCardButton
    \/ FireFeedback
    \/ Tick

SpecLessons == InitLessons /\ [][NextLessons]_vars

\* The lesson button pressed for a lesson that is already in the stack:
\* injectLesson is called with an id of injectedLessonIds.
InjectInjectedLesson ==
    \E lessonId \in DOMAIN SharedNoteLessons \cap Range(injectedLessonIds) :
        /\ currentCard = None
        /\ \E shuffled \in shuffleArray(SharedNoteLessons[lessonId]) :
             \E a \in injectLesson(App, lessonId, shuffled, now) :
                /\ SetApp(a)
                /\ \E r \in {Commit(App, fc, a, fc, timers)} : SetView(r)
                /\ last' = last
        /\ UNCHANGED <<now, settings, timeout, switches, silentTimeout, audioVars>>

NextInject == NextLessons \/ InjectInjectedLesson

SpecInject == InitLessons /\ [][NextInject]_vars

\* A session of typed answers in which no lesson is injected. A timer that is
\* due runs and time goes on, whatever the learner does: the browser's timers
\* and clock are scheduled fairly, the learner's typing and keys are not.
InitDue == Init /\ timeout = 0 /\ cards # <<>>

\* Time enough for the longest box interval to pass twice.
DueEnd == 2 * MaxInterval + 1

TickDue == TickUntil(DueEnd)

NextDue ==
    \/ handleTextSubmit
    \/ EnterKey
    \/ FireFeedback
    \/ TickDue

SpecDue ==
    InitDue /\ [][NextDue]_vars /\ WF_vars(FireFeedback) /\ WF_vars(TickDue)

\* ------------------------------------------- the detection loop, round by round
\* detectPitchStable(300, 2) and the setTimeout(detectPitchLoop, 100) after
\* it: one time unit from one round's start to the next.
RoundPeriod == 1
\* The handle of the loop's pending round.
RoundId == MaxTimers + 1
\* The session of rounds ends here.
LoopEnd == 2 * (RoundPeriod + StabilizationDelay + CorrectFeedbackDelay) + 1

\* The detector a round of detectPitchLoop calls: the loop tests the
\* currentCard of the render that made it.
detection(snap) ==
    IF snap.currentCard # None /\ isChordCard(snap.currentCard[1])
    THEN "detectChordStable" ELSE "detectPitchStable"

\* A round of detectPitchLoop in progress, as closed over snap.
Round(snap) == Timer(RoundId, "round", RoundPeriod, detection(snap), snap)

\* A chord card as types.ts declares it: a chord and no note.
ChordCard ==
    [id |-> <<"C-major", 0, Len(LessonNotes)>>,
     chord |-> [name |-> "C", notes |-> <<Note("C", 4), Note("E", 4), Note("G", 4)>>,
                type |-> "major"],
     boxNumber |-> -1,
     lastReviewDate |-> 0,
     nextReviewDate |-> 0,
     reviewCount |-> 0,
     correctCount |-> 0,
     incorrectCount |-> 0]

\* Progress an earlier session saved: a lesson of notes, nothing reviewed yet.
NotesProgress ==
    saveProgress(EmptyStorage, initializeFlashCards(LessonNotes), <<"lesson1">>, "ella")

\* Progress an earlier session saved: a note card and a chord card, nothing
\* reviewed yet.
ChordProgress ==
    saveProgress(EmptyStorage,
                 SubSeq(initializeFlashCards(LessonNotes), 1, 1) \o <<ChordCard>>,
                 <<"lesson1", "lesson13">>, "ella")

\* actuallyStartListening with the microphone granted, and its call of
\* detectPitchLoop: the first round starts. The learner starts listening
\* at a note card.
StartLoop ==
    /\ ~isListening /\ ~isInitializing
    /\ currentCard # None /\ ~isChordCard(currentCard[1])
    /\ \E i \in {initialize(detector, microphone)} :
          /\ i.resolved
          /\ detector' = i.detector
          /\ isInitializing' = FALSE
          /\ error' = FALSE
          /\ LET a == [App EXCEPT !.isListening = TRUE, !.isPaused = FALSE]
             IN  /\ SetApp(a)
                 /\ \E r \in {Commit(App, fc, a, fc, timers \cup {Round(Snap(App))})} :
                       SetView(r)
    /\ last' = last
    /\ UNCHANGED <<now, settings, timeout, switches, silentTimeout, microphone, poll>>

\* A round of detectPitchLoop ends: detectPitchStable has resolved to a note
\* or to nothing, the result is set, and the same detectPitchLoop is
\* scheduled again.
RoundEnds ==
    \E tm \in timers, note \in DetectableNotes \cup {NoNote} :
        /\ tm.kind = "round" /\ tm.left = 0
        /\ tm.verdict = "detectPitchStable"
        /\ detector.isRunning
        /\ LET a == [App EXCEPT !.detectedNote = note]
           IN  /\ SetApp(a)
               /\ \E r \in {Commit(App, fc, a, fc, (timers \ {tm}) \cup {Round(tm.snap)})} :
                     SetView(r)
        /\ last' = last
        /\ UNCHANGED <<now, settings, timeout, switches, silentTimeout, audioVars>>

TickLoop == TickUntil(LoopEnd)

InitLoop ==
    /\ MountedOn({NotesProgress, ChordProgress})
    /\ silentTimeout = FALSE /\ microphone = "granted"
    /\ timeout = 0 /\ settings[0] = 1

NextLoop ==
    \/ StartLoop
    \/ RoundEnds
    \/ EnterKey
    \/ FireDetect
    \/ FireFeedback
    \/ TickLoop

SpecLoop == InitLoop /\ [][NextLoop]_vars

\* The same session with the Silent Timeout box ticked and the Answer
\* Timeout switched on.
InitSilent == Mounted /\ silentTimeout = TRUE /\ timeout > 0 /\ microphone = "granted"

SpecSilent == InitSilent /\ [][Next]_vars

\* ------------------------------------------- the detector, call by call
\* The learner changes what the browser answers the page's request for the
\* microphone.
Permission ==
    /\ microphone' = IF microphone = "granted" THEN "denied" ELSE "granted"
    /\ UNCHANGED <<cards, now, settings, last, currentCard, injectedLessonIds,
                   currentUser, storage, isListening, isPaused, detectedNote, timeout, fc,
                   timers, switches, silentTimeout, detector, isInitializing, error, poll>>

\* detector.stop() as the App's unmount cleanup calls it, whatever the
\* detector's state.
CallStop ==
    /\ detector' = stop(detector)
    /\ UNCHANGED <<cards, now, settings, last, currentCard, injectedLessonIds,
                   currentUser, storage, isListening, isPaused, detectedNote, timeout, fc,
                   timers, switches, silentTimeout, microphone, isInitializing, error, poll>>

CallDetectPitchStable ==
    \E durationMs \in 1..MaxDuration, requiredConsensus \in 2..MaxConsensus :
        /\ poll.status # "polling"
        /\ poll' = detectPitchStable(durationMs, requiredConsensus)
        /\ UNCHANGED <<cards, now, settings, last, currentCard, injectedLessonIds,
                       currentUser, storage, isListening, isPaused, detectedNote, timeout,
                       fc, timers, switches, silentTimeout, microphone, detector,
                       isInitializing, error>>

\* 50 ms have passed: the interval callback of the call in progress runs.
PollTick ==
    \E heard, again \in DetectableNotes \cup {NoNote} :
        /\ poll.status = "polling"
        /\ poll' = pollTick(poll, detectPitch(detector, heard), detectPitch(detector, again))
        /\ UNCHANGED <<cards, now, settings, last, currentCard, injectedLessonIds,
                       currentUser, storage, isListening, isPaused, detectedNote, timeout,
                       fc, timers, switches, silentTimeout, microphone, detector,
                       isInitializing, error>>

InitAudio ==
    Mounted /\ silentTimeout = FALSE /\ timeout = 0 /\ microphone \in {"granted", "denied"}

NextAudio ==
    \/ actuallyStartListening
    \/ StopListening
    \/ Permission
    \/ CallStop
    \/ CallDetectPitchStable
    \/ PollTick

SpecAudio == InitAudio /\ [][NextAudio]_vars

\* ------------------------------------------------ noteUtils, call by call
\* Octave texts: the digits 0 and 4, so that 4, 0, 04 and 40 are told apart.
RECURSIVE OctaveTexts(_)
OctaveTexts(len) ==
    IF len = 0 THEN {<<>>}
    ELSE {<<d>> \o t : d \in {"0", "4"}, t \in OctaveTexts(len - 1)}

\* The well-formed note texts compared: every name with every octave text.
NoteParts ==
    {[name |-> name, octave |-> octave] :
        name \in DOMAIN Spelling,
        octave \in UNION {OctaveTexts(len) : len \in 1..MaxOctaveDigits}}

\* Names of the notes a chord is detected with (generateNoteSet spells sharps)
\* and names a chord shown is spelt with.
DetectedChordNames == {"C#", "F", "G#"}
ExpectedChordNames == {"C#", "Db", "F", "G#", "Ab"}

\* The chords of 1..MaxChordSize notes over a set of names, at one octave.
Chords(names, octave) ==
    UNION {[1..len -> {Note(name, octave) : name \in names}] : len \in 1..MaxChordSize}

\* The tolerances getNoteFromFrequency is called with, in hundredths of a
\* semitone: its default 0.5 and the detector's 0.4.
Tolerances == {50, 40}

\* The notes the system defines: the quantizer's set and the lesson cards'.
QuantizedNotes ==
    Range(generateNoteSet) \cup UNION {Range(NoteLessons[l]) : l \in DOMAIN NoteLessons}

\* The calls to make: the function and its arguments, no result yet.
NoteUtilsCalls ==
    {[NoOp EXCEPT !.op = "areNotesEquivalent", !.arg = Some(<<part1, part2>>)] :
        part1 \in NoteParts, part2 \in NoteParts}
    \cup
    {[NoOp EXCEPT !.op = "chordMatches", !.arg = Some(<<detected, expected>>)] :
        detected \in Chords(DetectedChordNames, 3),
        expected \in Chords(ExpectedChordNames, 4)}
    \cup
    {[NoOp EXCEPT !.op = "getNoteFromFrequency", !.arg = Some(<<note, tolerance>>)] :
        note \in QuantizedNotes, tolerance \in Tolerances}

\* Everything but the collection and the call made last is as the scheduler
\* harness starts it.
Idle ==
    /\ now = 1
    /\ settings \in IntervalConfigs /\ settings[0] = 1
    /\ currentCard = None
    /\ injectedLessonIds = <<>>
    /\ currentUser = "ella"
    /\ storage = EmptyStorage
    /\ isListening = FALSE
    /\ isPaused = FALSE
    /\ detectedNote = NoNote
    /\ timeout = 0
    /\ fc = FreshCard
    /\ timers = {}
    /\ switches = 0
    /\ silentTimeout = FALSE
    /\ microphone = "granted"
    /\ detector = NewDetector
    /\ isInitializing = FALSE
    /\ error = FALSE
    /\ poll = NoPoll

InitNoteUtils == Idle /\ cards = <<>> /\ last \in NoteUtilsCalls

CallAreNotesEquivalent ==
    /\ last.op = "areNotesEquivalent" /\ last.res = None
    /\ LET note1 == Spelling[last.arg[1][1].name] \o last.arg[1][1].octave
           note2 == Spelling[last.arg[1][2].name] \o last.arg[1][2].octave
       IN  /\ ~InvalidNoteFormat(note1) /\ ~InvalidNoteFormat(note2)
           /\ last' = [last EXCEPT !.res = Some([value |-> areNotesEquivalent(note1, note2),
                                                 swapped |-> areNotesEquivalent(note2, note1),
                                                 self |-> areNotesEquivalent(note1, note1)])]
    /\ UNCHANGED <<cards, now, settings, sessionVars>>

CallChordMatches ==
    /\ last.op = "chordMatches" /\ last.res = None
    /\ last' = [last EXCEPT !.res = Some(chordMatches(last.arg[1][1], last.arg[1][2]))]
    /\ UNCHANGED <<cards, now, settings, sessionVars>>

\* The frequency of the note is computed and quantized.
CallGetNoteFromFrequency ==
    /\ last.op = "getNoteFromFrequency" /\ last.res = None
    /\ last' = [last EXCEPT !.res =
                   Some(getNoteFromFrequency(getFrequency(last.arg[1][1].name,
                                                          last.arg[1][1].octave),
                                             last.arg[1][2]))]
    /\ UNCHANGED <<cards, now, settings, sessionVars>>

NextNoteUtils ==
    \/ CallAreNotesEquivalent
    \/ CallChordMatches
    \/ CallGetNoteFromFrequency

SpecNoteUtils == InitNoteUtils /\ [][NextNoteUtils]_vars

\* ------------------------------------------- the statistics, call by call
\* The scheduler's calls with the progress display's call of getStatistics,
\* also on the collection of a profile that has no cards yet.
InitStatistics ==
    /\ Idle
    /\ last = NoOp
    /\ \E deck \in {initializeFlashCards(LessonNotes), <<>>} : cards = deck

CallGetStatistics ==
    /\ last' = [NoOp EXCEPT !.op = "getStatistics",
                            !.res = Some(getStatistics(cards, now)), !.at = now]
    /\ UNCHANGED <<cards, now, settings, sessionVars>>

NextStatistics ==
    \/ CallPromote
    \/ CallDemote
    \/ CallIntroduce
    \/ ClockTick
    \/ CallGetStatistics

SpecStatistics == InitStatistics /\ [][NextStatistics]_vars

\* ------------------------------------------------ localStorage, call by call
\* What a progress item left by an earlier session, another version of the
\* program or another program can hold: text that does not parse, a document
\* without the cards list, one without injectedLessonIds, a whole one.
StoredDeck == initializeFlashCards(LessonNotes)
NoCardsDocument == [totalReviews |-> 0, correctReviews |-> 0]
NoInjectedIdsDocument == [cards |-> StoredDeck, totalReviews |-> 0, correctReviews |-> 0]
WholeDocument ==
    [cards |-> StoredDeck, totalReviews |-> 0, correctReviews |-> 0,
     injectedLessonIds |-> <<"lesson1">>]
ProgressItems ==
    {None, Some(Unparseable), Some(NoCardsDocument), Some(NoInjectedIdsDocument),
     Some(WholeDocument)}

\* Settings items: text that does not parse, the old format, a document
\* without audioDetection.
SettingsItems ==
    {None, Some(Unparseable), Some([DEFAULT_REHEARSAL_SETTINGS EXCEPT !.box0Interval = 4]),
     Some([rehearsal |-> [DEFAULT_REHEARSAL_SETTINGS EXCEPT !.box1Interval = 60]])}

\* Settings the settings dialog saves.
SavedSettings ==
    {[DEFAULT_SETTINGS EXCEPT !.audioDetection.enableHarmonicRatio = FALSE]}

\* Collections and lesson lists the App saves.
SavedProgress ==
    {[cards |-> StoredDeck, injectedLessonIds |-> <<"lesson1">>],
     [cards |-> <<>>, injectedLessonIds |-> <<>>]}

\* localStorage with both profiles created and the first one current.
StoredStates ==
    {[k \in LocalStorageKeys |->
        IF k = USER_PROFILES_KEY THEN Some([profiles |-> <<"ella", "georg">>])
        ELSE IF k = CURRENT_USER_KEY THEN Some("ella")
        ELSE IF k = getStorageKey(STORAGE_KEY, "ella") THEN p
        ELSE IF k = getStorageKey(STORAGE_KEY, "georg") THEN q
        ELSE IF k = getStorageKey(SETTINGS_KEY, "ella") THEN st
        ELSE None]
       : p \in ProgressItems, q \in {None, Some(WholeDocument)}, st \in SettingsItems}

InitStorage ==
    /\ now = 1
    /\ settings \in IntervalConfigs /\ settings[0] = 1
    /\ timeout = 0
    /\ last = NoOp
    /\ switches = 0
    /\ storage \in StoredStates
    /\ cards = <<>>
    /\ currentCard = None
    /\ injectedLessonIds = <<>>
    /\ currentUser = ""
    /\ isListening = FALSE
    /\ isPaused = FALSE
    /\ detectedNote = NoNote
    /\ fc = FreshCard
    /\ timers = {}
    /\ silentTimeout = FALSE
    /\ microphone = "granted"
    /\ detector = NewDetector
    /\ isInitializing = FALSE
    /\ error = FALSE
    /\ poll = NoPoll

StorageCall(op, userId, value, result) ==
    [NoOp EXCEPT !.op = op, !.arg = Some([userId |-> userId, value |-> value]),
                 !.res = result, !.at = now]

\* The load-user-data effect runs for a profile. When it throws, no state is
\* set.
LoadUserDataEffect ==
    \E userId \in Users :
        \E a0 \in {[App EXCEPT !.currentUser = userId]} :
           IF loadUserDataThrows(a0, userId)
           THEN /\ last' = StorageCall("loadUserData", userId, None, Some("TypeError"))
                /\ UNCHANGED <<cards, now, settings, sessionVars>>
           ELSE /\ \E a \in loadUserData(a0, userId, now) :
                      /\ SetApp(a)
                      /\ \E r \in {Commit(App, fc, a, fc, timers)} : SetView(r)
                /\ last' = StorageCall("loadUserData", userId, None, Some("loaded"))
                /\ UNCHANGED <<now, settings, timeout, switches, silentTimeout, audioVars>>

StorageStep(call, store) ==
    /\ last' = call
    /\ storage' = store
    /\ UNCHANGED <<cards, now, settings, currentCard, injectedLessonIds, currentUser,
                   isListening, isPaused, detectedNote, timeout, fc, timers, switches,
                   silentTimeout, audioVars>>

CallSaveProgress ==
    \E userId \in Users, p \in SavedProgress :
        StorageStep(StorageCall("saveProgress", userId, p, None),
                    saveProgress(storage, p.cards, p.injectedLessonIds, userId))

CallClearProgress ==
    \E userId \in Users :
        StorageStep(StorageCall("clearProgress", userId, None, None),
                    clearProgress(storage, userId))

CallSaveSettings ==
    \E userId \in Users, st \in SavedSettings :
        StorageStep(StorageCall("saveSettings", userId, st, None),
                    saveSettings(storage, st, userId))

CallDeleteUserProfile ==
    \E userId \in Users :
        StorageStep(StorageCall("deleteUserProfile", userId, None,
                                Some(userId \in Range(getUserProfiles(storage)))),
                    deleteUserProfile(storage, userId))

NextStorage ==
    \/ LoadUserDataEffect
    \/ CallSaveProgress
    \/ CallClearProgress
    \/ CallSaveSettings
    \/ CallDeleteUserProfile

SpecStorage == InitStorage /\ [][NextStorage]_vars

\* ------------------------------------------------ clockUtils, call by call
\* ClockProblem.hour and ClockProblem.minute
ClockHours == 0..23
ClockMinutes == 0..59

\* The ways an answer is typed for a clock time.
AnswerKinds ==
    {"digital24", "digital12", "phrase", "short", "otherMinute", "otherHalf", "dotted",
     "capitals"}

\* A number below 100 typed with two digits, and typed without a leading zero.
TwoDigits(n) == <<DigitChars[(n \div 10) + 1], DigitChars[(n % 10) + 1]>>
PlainDigits(n) == IF n < 10 THEN <<DigitChars[n + 1]>> ELSE TwoDigits(n)

\* The answer typed: the time on the 24-hour and on the 12-hour clock, the
\* long phrase and the phrase after its two leading words, the 24-hour time of
\* the next minute and of the other half of the day, the 24-hour time with a
\* full stop, and the long phrase with a capital and a blank after it.
TypedClockAnswer(hour, minute, kind) ==
    CASE kind = "digital24" -> TwoDigits(hour) \o <<":">> \o TwoDigits(minute)
      [] kind = "digital12" ->
            PlainDigits(IF hour % 12 = 0 THEN 12 ELSE hour % 12) \o <<":">> \o TwoDigits(minute)
      [] kind = "phrase" -> getNorwegianTimePhrase(hour, minute)
      [] kind = "short" ->
            SubSeq(getNorwegianTimePhrase(hour, minute), Len(KlokkenEr) + 1,
                   Len(getNorwegianTimePhrase(hour, minute)))
      [] kind = "otherMinute" ->
            TwoDigits(hour) \o <<":">> \o TwoDigits((minute + 1) % 60)
      [] kind = "otherHalf" ->
            TwoDigits((hour + 12) % 24) \o <<":">> \o TwoDigits(minute)
      [] kind = "dotted" -> TwoDigits(hour) \o <<".">> \o TwoDigits(minute)
      [] kind = "capitals" ->
            <<"K">> \o Tail(getNorwegianTimePhrase(hour, minute)) \o <<" ">>

ClockCalls ==
    {[NoOp EXCEPT !.op = "isValidClockAnswer",
                  !.arg = Some([hour |-> hour, minute |-> minute, kind |-> kind])] :
        hour \in ClockHours, minute \in ClockMinutes, kind \in AnswerKinds}

InitClock == Idle /\ cards = <<>> /\ last \in ClockCalls

\* The problem is created for the Norwegian locale and the answer typed is
\* checked against it.
CallIsValidClockAnswer ==
    /\ last.op = "isValidClockAnswer" /\ last.res = None
    /\ LET problem == createClockProblem(last.arg[1].hour, last.arg[1].minute, "no")
           userAnswer == TypedClockAnswer(last.arg[1].hour, last.arg[1].minute,
                                          last.arg[1].kind)
       IN  last' = [last EXCEPT !.res =
                        Some([userAnswer |-> userAnswer,
                              accepted |-> isValidClockAnswer(userAnswer,
                                                              problem.validAnswers)])]
    /\ UNCHANGED <<cards, now, settings, sessionVars>>

NextClock ==
    \/ CallIsValidClockAnswer

SpecClock == InitClock /\ [][NextClock]_vars

\* ------------------------------------------------ the chord lessons
\* createMajorChord: the third and the fifth are looked up in noteSequence
\* from the root's index.
createMajorChord(rootName, octave) ==
    LET root == Note(rootName, octave)
        noteSequence == <<"C", "C#", "D", "D#", "E", "F", "F#", "G", "G#", "A", "A#", "B">>
        rootIndex == indexOf(noteSequence, rootName)
        thirdIndex == (rootIndex + 4) % 12
        thirdOctave == octave + ((rootIndex + 4) \div 12)
        third == Note(noteSequence[thirdIndex + 1], thirdOctave)
        fifthIndex == (rootIndex + 7) % 12
        fifthOctave == octave + ((rootIndex + 7) \div 12)
        fifth == Note(noteSequence[fifthIndex + 1], fifthOctave)
    IN  [name |-> rootName, notes |-> <<root, third, fifth>>, type |-> "major"]

\* createChordInversions: root position, first and second inversion.
createChordInversions(rootName, octave) ==
    LET baseChord == createMajorChord(rootName, octave)
        root == baseChord.notes[1]
        third == baseChord.notes[2]
        fifth == baseChord.notes[3]
        rootPosition == [name |-> rootName, notes |-> <<root, third, fifth>>,
                         type |-> "major"]
        firstInversion ==
            [name |-> rootName,
             notes |-> <<third, fifth, [root EXCEPT !.octave = root.octave + 1]>>,
             type |-> "major"]
        secondInversion ==
            [name |-> rootName,
             notes |-> <<fifth, [root EXCEPT !.octave = root.octave + 1],
                         [third EXCEPT !.octave = third.octave + 1]>>,
             type |-> "major"]
    IN  <<rootPosition, firstInversion, secondInversion>>

\* The roots of lessons 13, 14 and 15.
MajorChordRoots ==
    [lesson13 |-> <<"C", "D", "E", "F", "G", "A", "B">>,
     lesson14 |-> <<"C#", "D#", "F#", "G#", "A#">>,
     lesson15 |-> <<"Db", "Eb", "Gb", "Ab", "Bb">>]

\* Octaves the chords are made for: the lessons' and the one below.
ChordOctaves == {3, 4}

ChordCalls ==
    UNION {{[NoOp EXCEPT !.op = op,
                         !.arg = Some([lesson |-> l, rootName |-> MajorChordRoots[l][k],
                                       octave |-> octave])] :
               op \in {"createMajorChord", "createChordInversions"},
               k \in DOMAIN MajorChordRoots[l], octave \in ChordOctaves} :
             l \in DOMAIN MajorChordRoots}

InitChords == Idle /\ cards = <<>> /\ last \in ChordCalls

CallCreateMajorChord ==
    /\ last.op = "createMajorChord" /\ last.res = None
    /\ last' = [last EXCEPT !.res = Some(<<createMajorChord(last.arg[1].rootName,
                                                             last.arg[1].octave)>>)]
    /\ UNCHANGED <<cards, now, settings, sessionVars>>

CallCreateChordInversions ==
    /\ last.op = "createChordInversions" /\ last.res = None
    /\ last' = [last EXCEPT !.res = Some(createChordInversions(last.arg[1].rootName,
                                                               last.arg[1].octave))]
    /\ UNCHANGED <<cards, now, settings, sessionVars>>

NextChords ==
    \/ CallCreateMajorChord
    \/ CallCreateChordInversions

SpecChords == InitChords /\ [][NextChords]_vars

\* ------------------------------------------------- claims: the scheduler
\* Has card c a review due at time t?
IsDue(c, t) == c.boxNumber >= 0 /\ c.nextReviewDate <= t

Counters(c) == <<c.reviewCount, c.correctCount, c.incorrectCount>>

\* C1: promoteCard at time `at` moves a card of box b in 0..3 to box b+1 and
\* a card of box 4 to box 4, sets nextReviewDate to `at` plus the interval
\* configured for the destination box (so later than `at`), adds one to
\* reviewCount and to correctCount and leaves incorrectCount alone.
C1_PromoteCard ==
    last.op = "promoteCard" =>
        LET c == last.arg[1]
            r == last.res[1]
            dest == IF c.boxNumber = 4 THEN 4 ELSE c.boxNumber + 1
        IN  /\ c.boxNumber \in 0..4
            /\ r.boxNumber = dest
            /\ r.nextReviewDate = last.at + settings[dest]
            /\ r.nextReviewDate > last.at
            /\ Counters(r) = <<c.reviewCount + 1, c.correctCount + 1, c.incorrectCount>>

\* A card of box 4 was promoted under a configuration whose box 3 and box 4
\* intervals differ.
C1_Witness ==
    /\ last.op = "promoteCard"
    /\ last.arg[1].boxNumber = 4
    /\ last.res[1].boxNumber = 4
    /\ settings[3] # settings[4]

\* C2: demoteCard at time `at` returns box 0 whatever the prior box, with
\* nextReviewDate = at + the box 0 interval, reviewCount and incorrectCount
\* one higher and correctCount unchanged.
C2_DemoteCard ==
    last.op = "demoteCard" =>
        LET c == last.arg[1]
            r == last.res[1]
        IN  /\ r.boxNumber = 0
            /\ r.nextReviewDate = last.at + settings[0]
            /\ Counters(r) = <<c.reviewCount + 1, c.correctCount, c.incorrectCount + 1>>

\* A card of box 2 was demoted.
C2_Witness ==
    /\ last.op = "demoteCard"
    /\ last.arg[1].boxNumber = 2
    /\ last.res[1].boxNumber = 0

\* C4: getNextCard never returns a card of box -1 while some card of the
\* collection is due, whatever the excluded card id.
C4_NoNewCardWhileDue ==
    (/\ last.op = "getNextCard"
     /\ \E i \in DOMAIN cards : IsDue(cards[i], last.at))
        => (last.res = None \/ last.res[1].boxNumber # -1)

\* C5: with no card due getNextCard returns the first card of box -1 in
\* insertion order, or none when there is no such card; with cards due it
\* returns one of the due cards.
C5_NextCardChoice ==
    last.op = "getNextCard" =>
        LET dueIdx == {i \in DOMAIN cards : IsDue(cards[i], last.at)}
            newIdx == {i \in DOMAIN cards : cards[i].boxNumber = -1}
        IN  /\ (dueIdx = {} /\ newIdx = {}) => last.res = None
            /\ (dueIdx = {} /\ newIdx # {}) =>
                    \E i \in newIdx : /\ \A j \in newIdx : i <= j
                                      /\ last.res = Some(cards[i])
            /\ dueIdx # {} => \E i \in dueIdx : last.res = Some(cards[i])

\* C6: introduceCard at time `at` takes a card of box -1 to box 0 with
\* lastReviewDate = nextReviewDate = at and the three counters unchanged, and
\* the card is among the due cards at `at` and at every later time.
C6_IntroduceCard ==
    last.op = "introduceCard" =>
        LET c == last.arg[1]
            r == last.res[1]
        IN  /\ c.boxNumber = -1
            /\ r.boxNumber = 0
            /\ r.lastReviewDate = last.at
            /\ r.nextReviewDate = last.at
            /\ Counters(r) = Counters(c)
            /\ now >= last.at
            /\ r \in Range(getDueCards(cards, now))
            /\ \A t \in last.at..MaxTime : r \in Range(getDueCards(<<r>>, t))

\* A card was introduced and time has passed since.
C6_Witness ==
    /\ last.op = "introduceCard"
    /\ now > last.at
    /\ last.res[1] \in Range(cards)

\* C7: getDueCards returns exactly the cards with boxNumber >= 0 and
\* nextReviewDate <= now, in collection order and never a card of box -1;
\* a card demoted at time `at` is not due before at + (box 0 interval) and is
\* due from then on.
C7_DueCards ==
    /\ LET due == getDueCards(cards, now)
       IN  /\ Range(due) = {cards[i] : i \in {j \in DOMAIN cards : IsDue(cards[j], now)}}
           /\ \A k \in DOMAIN due : due[k].boxNumber # -1
           /\ Len(due) = Cardinality({j \in DOMAIN cards : IsDue(cards[j], now)})
    /\ last.op = "demoteCard" =>
           (last.res[1] \in Range(getDueCards(cards, now))
                <=> now >= last.at + settings[0])

\* A demoted card has become due again exactly when its interval elapsed,
\* after having been excluded.
C7_Witness ==
    /\ last.op = "demoteCard"
    /\ settings[0] > 1
    /\ now = last.at + settings[0]
    /\ last.res[1] \in Range(getDueCards(cards, now))

\* --------------------------------------------------- claims: the session
\* Every card the program holds: the collection, the card displayed, the
\* saved progress of every profile.
HeldCards ==
    Range(cards) \cup Range(currentCard)
        \cup UNION {Range(loadProgress(storage, u)[1].cards) :
                       u \in {v \in Users : loadProgress(storage, v) # None}}

\* C3: in every reachable state of a session (lessons injected, cards
\* introduced, promoted and demoted, the manual next card, progress reset,
\* the profile changed, timers running out) every card has
\* reviewCount = correctCount + incorrectCount.
C3_CountersAgree ==
    \A c \in HeldCards : c.reviewCount = c.correctCount + c.incorrectCount

\* The profile has been changed, and the profile left behind has a card
\* answered both correctly and incorrectly, the new one a card reviewed.
C3_Witness ==
    /\ switches > 0
    /\ \E c \in Range(cards) : c.reviewCount > 0
    /\ \E u \in Users \ {currentUser} :
          /\ loadProgress(storage, u) # None
          /\ \E c \in Range(loadProgress(storage, u)[1].cards) :
                c.correctCount > 0 /\ c.incorrectCount > 0

\* The review a verdict stands for, applied to the card displayed.
Recorded(verdict) ==
    IF verdict = "correct"
    THEN promoteCard(currentCard[1], settings, now)
    ELSE demoteCard(currentCard[1], settings, now)

\* C8: a verdict on the card displayed is followed by the matching
\* promoteCard or demoteCard on that card before a different card is
\* presented, whether the feedback ends by its timer, by the Enter key or by
\* the 'Next Card' button.
C8_VerdictRecorded ==
    [][(/\ fc.mounted
        /\ fc.feedback # "none"
        /\ currentCard' # None
        /\ currentCard'[1].id # currentCard[1].id)
          => Recorded(fc.feedback) \in Range(cards')]_vars

\* C9: while a card is displayed no stabilization, feedback or countdown
\* timer started during an earlier presentation is pending, so that none can
\* set feedback or promote or demote during a later one.
C9_NoTimerOfEarlierCard ==
    currentCard # None => \A tm \in timers : tm.pres

\* C10: the Enter key during feedback cancels the pending auto-advance timer
\* and advances at once, so that no auto-advance timer is left to advance a
\* second time, also when the feedback was started by the timeout.
C10_EnterAdvancesOnce ==
    [][EnterKey => \A tm \in timers' : tm.kind # "feedback"]_vars

\* What the detection effect's timer callback decides for a note heard.
Judged(note) ==
    IF areNotesEquivalent(trim(note), expectedNote(App)) THEN "correct" ELSE "incorrect"

\* The card shown by component state f awaits its answer.
Unanswered(f) == f.mounted /\ f.feedback = "none" /\ ~f.hasAnswered

\* The card displayed is one the reset effect starts the countdown for.
Timed == timeout > 0 /\ currentCard # None /\ currentCard[1].boxNumber >= 1

\* C11: an audio verdict is rendered only when the candidate the
\* stabilization window was started for is still the note detected at the
\* window's end (a change of candidate restarts the window, a loss of
\* detection cancels it), and the verdict is the judgment of that candidate
\* against the card displayed.
C11_VerdictAfterStableWindow ==
    [][(FireDetect /\ \E tm \in timers : tm.kind = "detect" /\ tm.left = 0 /\ tm.inst)
          => /\ detectedNote # NoNote
             /\ detectedNote = fc.stableNote
             /\ fc'.feedback = Judged(noteText(detectedNote))]_vars

C13_TimeoutVerdict ==
    [][/\ (fc'.mounted /\ ~Timed') => fc'.remainingTime = NoTime
       /\ (Unanswered(fc') /\ ~isPaused' /\ Timed') =>
              /\ fc'.remainingTime \in 1..timeout
              /\ \E tm \in timers' : /\ tm.kind = "interval" /\ tm.inst
                                      /\ tm.id = fc'.timeoutTimerRef
                                      /\ tm.left \in 0..CountdownPeriod
       /\ (FireInterval /\ Unanswered(fc) /\ ~isPaused) =>
              IF fc.remainingTime > 1
              THEN fc'.remainingTime = fc.remainingTime - 1 /\ Unanswered(fc')
              ELSE /\ fc'.remainingTime = 0
                   /\ fc'.feedback = "incorrect"
                   /\ fc'.hasAnswered
       /\ (fc.mounted /\ fc.remainingTime = 0 /\ (~fc'.mounted \/ fc'.remainingTime # 0))
              => demoteCard(currentCard[1], settings, now) \in Range(cards')]_vars

\* C14: with Silent Timeout ticked the deadline's passing renders no verdict,
\* so that the learner may still answer; a correct answer is shown as correct,
\* and its feedback ends in the promotion of the card when it came before the
\* deadline and in the demotion when it came after.
C14_SilentTimeout ==
    [][silentTimeout =>
          /\ (FireInterval /\ Unanswered(fc)) => Unanswered(fc')
          /\ (Unanswered(fc) /\ fc'.mounted /\ fc'.feedback = "correct") =>
                 \E tm \in timers' :
                    /\ tm.kind = "feedback"
                    /\ tm.id = fc'.feedbackTimerRef
                    /\ tm.verdict = IF fc.remainingTime = 0 THEN "incorrect"
                                    ELSE "correct"]_vars

\* C15: while the session is paused the detection loop does not run: no
\* round of it ends and sets the detected note.
C15_PauseHaltsPolling ==
    [][detectPitchLoop => ~isPaused]_vars

Consensus == \E n \in DetectableNotes : poll.detections[n] >= poll.requiredConsensus

\* C17: detectPitchStable resolves at the first polling tick at which a
\* note's tally reaches requiredConsensus, whether or not durationMs has
\* elapsed; it resolves to the note whose tally reached it, and no polling
\* tick runs after it has resolved.
C17_ConsensusResolvesEarly ==
    [][/\ PollTick => poll.status = "polling"
       /\ poll'.status = "polling" => ~Consensus'
       /\ (poll'.status = "resolved" /\ Consensus') =>
              /\ poll'.result # NoNote
              /\ poll'.detections[poll'.result] = poll'.requiredConsensus
              /\ \A n \in DetectableNotes \ {poll'.result} :
                     poll'.detections[n] < poll'.requiredConsensus]_vars

\* A note was seen on three ticks with requiredConsensus = 3 and the call
\* resolved to it on the third tick, before durationMs had elapsed.
C17_Witness ==
    /\ poll.status = "resolved"
    /\ poll.requiredConsensus = 3
    /\ poll.elapsed = 3
    /\ poll.elapsed <= poll.durationMs
    /\ poll.result # NoNote
    /\ poll.detections[poll.result] = 3

\* C18: when durationMs elapses without consensus, detectPitchStable returns
\* the note tallied most often if any note was tallied, and none only when
\* none was; the note returned is one that was tallied.
C18_TimeoutReturnsMostFrequent ==
    (poll.status = "resolved" /\ ~Consensus) =>
        IF \A n \in DetectableNotes : poll.detections[n] = 0
        THEN poll.result = NoNote
        ELSE /\ poll.result # NoNote
             /\ poll.detections[poll.result] > 0
             /\ \A n \in DetectableNotes : poll.detections[n] <= poll.detections[poll.result]

\* C19: stop() leaves the detector not running with every resource released,
\* whatever state it was in, and changes nothing when called again; while the
\* detector is not running detectPitch finds nothing, so that a call of
\* detectPitchStable in progress tallies nothing.
C19_StopReleases ==
    [][/\ (CallStop \/ StopListening) =>
              /\ detector' = NewDetector
              /\ detector = NewDetector => detector' = detector
       /\ (PollTick /\ ~detector.isRunning) => poll'.detections = poll.detections]_vars

\* The detector was stopped during a call of detectPitchStable that had
\* tallied a note, and the call has gone on polling since.
C19_Witness ==
    /\ detector = NewDetector
    /\ poll.status = "polling"
    /\ poll.elapsed > 1
    /\ \E n \in DetectableNotes : poll.detections[n] = 1
    /\ \A n \in DetectableNotes : poll.detections[n] <= 1

\* C20: when initialize fails the detector stays not running, the App has an
\* error message set and neither listens nor initializes, the cards, the card
\* displayed and the detected note are as before and the detection loop is
\* not started; a start request made when the microphone is granted succeeds.
C20_InitializeFailure ==
    [][actuallyStartListening =>
          IF microphone = "denied"
          THEN /\ detector' = detector
               /\ ~detector'.isRunning
               /\ ~isListening' /\ ~isInitializing' /\ error'
               /\ cards' = cards /\ currentCard' = currentCard
               /\ detectedNote' = detectedNote
               /\ fc' = fc /\ timers' = timers
          ELSE /\ detector'.isRunning
               /\ isListening' /\ ~isInitializing' /\ ~error']_vars

\* A start request has failed and the microphone has been granted since.
C20_Witness ==
    /\ error
    /\ ~isListening
    /\ microphone = "granted"
    /\ currentCard # None

\* ---------------------------------------------- claims: the note utilities
\* The five enharmonic pairs: a sharp name and the flat name of the same key.
EnharmonicPairs ==
    {<<"C#", "Db">>, <<"D#", "Eb">>, <<"F#", "Gb">>, <<"G#", "Ab">>, <<"A#", "Bb">>}

\* Two names are one pitch class: the same name, or the two names of a pair.
SamePitchClass(name1, name2) ==
    \/ name1 = name2
    \/ <<name1, name2>> \in EnharmonicPairs
    \/ <<name2, name1>> \in EnharmonicPairs

PitchClass(name) ==
    IF \E pair \in EnharmonicPairs : pair[2] = name
    THEN (CHOOSE pair \in EnharmonicPairs : pair[2] = name)[1]
    ELSE name

PitchClasses(notes) == {PitchClass(notes[i].name) : i \in DOMAIN notes}

\* C22: chordMatches is true exactly when the two lists have the same size
\* and the same set of pitch classes, whatever the octaves, the order and
\* the spelling of the notes.
C22_ChordMatches ==
    (last.op = "chordMatches" /\ last.res # None) =>
        last.res[1] = (/\ Len(last.arg[1][1]) = Len(last.arg[1][2])
                       /\ PitchClasses(last.arg[1][1]) = PitchClasses(last.arg[1][2]))

\* C23: a typed answer that is not empty, submitted for a note card, gets a
\* correct or an incorrect verdict whatever its text, well-formed or not.
C23_TypedTextGetsVerdict ==
    [][(handleTextSubmitAnyText /\ trim(fc'.textInput) # EmptyText)
          => fc'.feedback \in {"correct", "incorrect"}]_vars

\* C25: the frequency of every note of the quantizer's set and of every note
\* on a lesson card is quantized to a note, never to none, with that note's
\* octave and pitch class.
C25_QuantizeRoundTrip ==
    (last.op = "getNoteFromFrequency" /\ last.res # None) =>
        /\ last.res[1] # NoNote
        /\ last.res[1].octave = last.arg[1][1].octave
        /\ SamePitchClass(last.res[1].name, last.arg[1][1].name)

\* ------------------------------------------------ claims: the clock answers
\* C24 as stated: for the problem of (hour, minute) the 24-hour and the
\* 12-hour digital form, the long phrase and its short form are accepted, the
\* 24-hour time of another minute is rejected, and the problem of hour 2,
\* minute 30 accepts 14:30.
C24_ClockAnswers ==
    (last.op = "isValidClockAnswer" /\ last.res # None) =>
        /\ last.arg[1].kind \in {"digital24", "digital12", "phrase", "short"}
              => last.res[1].accepted
        /\ last.arg[1].kind = "otherMinute" => ~last.res[1].accepted
        /\ (/\ last.arg[1].hour = 2 /\ last.arg[1].minute = 30
            /\ last.res[1].userAnswer = <<"1", "4", ":", "3", "0">>)
              => last.res[1].accepted

\* C24, amended: for the problem of (hour, minute), hour counted 0..23, the
\* 24-hour and the 12-hour digital form of that hour, the long phrase and its
\* short form are accepted and the 24-hour time of another minute is
\* rejected; the 24-hour time of the other half of the day is accepted only
\* where it reads as the 12-hour form does (hours 0, 22 and 23), so the
\* problem of hour 2, minute 30 rejects 14:30.
C24_ClockAnswersOfThatHour ==
    (last.op = "isValidClockAnswer" /\ last.res # None) =>
        /\ last.arg[1].kind \in {"digital24", "digital12", "phrase", "short"}
              => last.res[1].accepted
        /\ last.arg[1].kind = "otherMinute" => ~last.res[1].accepted
        /\ last.arg[1].kind = "otherHalf"
              => /\ last.res[1].accepted <=>
                        last.res[1].userAnswer =
                            TypedClockAnswer(last.arg[1].hour, last.arg[1].minute,
                                             "digital12")
                 /\ last.arg[1].hour \in 1..11 => ~last.res[1].accepted

\* The problem of hour 14, minute 30 was given the answer "halv tre".
C24_Witness ==
    /\ last.op = "isValidClockAnswer" /\ last.res # None
    /\ last.arg[1].hour = 14 /\ last.arg[1].minute = 30
    /\ last.res[1].userAnswer = <<"h", "a", "l", "v", " ", "t", "r", "e">>
    /\ last.res[1].accepted

\* ------------------------------------------------- claims: the card ids
\* C26: a card not yet introduced has boxNumber -1 and its three counters at
\* 0 as initializeFlashCards made it, and after any lesson injections no two
\* cards of the collection have the same id.
C26_FreshUniqueCards ==
    /\ \A i \in DOMAIN cards :
          cards[i].boxNumber = -1 => Counters(cards[i]) = <<0, 0, 0>>
    /\ \A i, j \in DOMAIN cards : i # j => cards[i].id # cards[j].id

\* ------------------------------------------------ claims: the statistics
RECURSIVE SumCounts(_)
SumCounts(boxDistribution) ==
    IF boxDistribution = <<>> THEN 0
    ELSE Head(boxDistribution).count + SumCounts(Tail(boxDistribution))

C28_LoadNeverRaises ==
    [][\A userId \in Users :
          (LoadUserDataEffect /\ last'.arg[1].userId = userId)
          => LET stored == storage[getStorageKey(STORAGE_KEY, userId)]
             IN  /\ last'.res # Some("TypeError")
                 /\ (stored = Some(Unparseable) \/ stored = Some(NoCardsDocument))
                    => cards' = <<>> /\ currentCard' = None
                 /\ stored = Some(NoInjectedIdsDocument)
                    => /\ injectedLessonIds' = <<>>
                       /\ [i \in DOMAIN cards' |-> cards'[i].id]
                            = [i \in DOMAIN StoredDeck |-> StoredDeck[i].id]]_vars

StorageCalls == {"saveProgress", "clearProgress", "saveSettings", "deleteUserProfile"}

\* C29: for distinct user ids A and B, saving or clearing progress or
\* settings for A, or deleting profile A, never changes what loadProgress and
\* loadSettings return for B; and loadProgress for A returns the collection
\* and the injected-lesson list last saved for A.
C29_ProfilesIsolated ==
    [][\A A \in Users :
          (last'.op \in StorageCalls /\ last'.arg[1].userId = A)
          => /\ \A B \in Users \ {A} :
                   /\ loadProgress(storage', B) = loadProgress(storage, B)
                   /\ loadSettings(storage', B) = loadSettings(storage, B)
             /\ last'.op = "saveProgress"
                => /\ loadProgress(storage', A) # None
                   /\ loadProgress(storage', A)[1].cards = last'.arg[1].value.cards
                   /\ loadProgress(storage', A)[1].injectedLessonIds
                        = last'.arg[1].value.injectedLessonIds]_vars

\* Progress was saved for one profile while the other profile holds progress
\* and settings of its own, and the other profile's are what they were.
C29_Witness ==
    /\ last.op = "saveProgress" /\ last.arg[1].userId = "georg"
    /\ last.arg[1].value.cards = <<>>
    /\ loadProgress(storage, "georg")[1].cards = <<>>
    /\ storage[getStorageKey(STORAGE_KEY, "ella")] = Some(WholeDocument)
    /\ loadProgress(storage, "ella")[1].cards = StoredDeck
    /\ loadSettings(storage, "ella").rehearsal.box0Interval = 4

\* The card a handler closed over has been promoted or demoted since: the
\* collection holds it with more reviews than the handler's copy has.
ReviewedSince(snap) ==
    \E c \in Range(cards) :
        c.id = snap.currentCard[1].id /\ c.reviewCount > snap.currentCard[1].reviewCount

\* C30: for each presentation of a card at most one promoteCard or demoteCard
\* is applied to it, whatever the order of the stabilization timer, the
\* countdown, the feedback timer, typed submission and the Enter key: a
\* feedback timer that runs onCorrect or onIncorrect for a card finds that no
\* transition has been applied since the card was presented to its creator.
C30_OneTransitionPerPresentation ==
    [][\A tm \in timers :
          (/\ FireFeedback
           /\ tm.kind = "feedback" /\ tm.left = 0
           /\ \A other \in timers' : other.id # tm.id
           /\ tm.snap.currentCard # None)
          => ~ReviewedSince(tm.snap)]_vars

\* C31: a new card is introduced before it is shown: the card displayed, if
\* any, has boxNumber >= 0, and the card of the collection with its id has the
\* same field values.
C31_ShownCardIntroduced ==
    currentCard # None
    => /\ currentCard[1].boxNumber >= 0
       /\ \E i \in DOMAIN cards : cards[i].id = currentCard[1].id
       /\ \A i \in DOMAIN cards :
             cards[i].id = currentCard[1].id => cards[i] = currentCard[1]

\* C32: after every session handler that changes the card collection or the
\* injected-lesson list (lesson injection, introduce, promote, demote,
\* reset) the progress record stored under the current user's key holds the
\* collection and the list in memory.
C32_SavedAfterEveryMutation ==
    [][(/\ currentUser' = currentUser
        /\ cards' # cards \/ injectedLessonIds' # injectedLessonIds)
          => /\ loadProgress(storage', currentUser') # None
             /\ loadProgress(storage', currentUser')[1].cards = cards'
             /\ loadProgress(storage', currentUser')[1].injectedLessonIds
                  = injectedLessonIds']_vars

\* C38: after any interleaving of user switches, reviews and timer callbacks
\* the collection in memory and the progress saved under the current user's
\* key hold only that user's cards and review results: a feedback timer
\* started while another user was current writes neither, also when both
\* users' current cards have the same id.
C38_TimersOfAnotherUser ==
    [][\A tm \in timers :
          (/\ FireFeedback
           /\ tm.kind = "feedback" /\ tm.left = 0
           /\ \A other \in timers' : other.id # tm.id
           /\ tm.snap.currentUser # currentUser)
          => /\ cards' = cards
             /\ loadProgress(storage', currentUser) = loadProgress(storage, currentUser)]_vars

\* C33: in every reachable session state every card's boxNumber is in -1..4
\* and a card with boxNumber -1 has reviewCount = correctCount =
\* incorrectCount = 0; once a card's boxNumber is >= 0 no step of the session
\* makes it -1 again or lowers its reviewCount, a progress reset (which empties
\* the collection) excepted.
C33_BoxesInRange ==
    \A i \in DOMAIN cards :
        /\ cards[i].boxNumber \in -1 .. 4
        /\ cards[i].boxNumber = -1
             => /\ cards[i].reviewCount = 0
                /\ cards[i].correctCount = 0
                /\ cards[i].incorrectCount = 0

C33_IntroducedStays ==
    \A i \in DOMAIN cards \cap DOMAIN cards' :
        (cards'[i].id = cards[i].id /\ cards[i].boxNumber >= 0)
        => /\ cards'[i].boxNumber >= 0
           /\ cards'[i].reviewCount >= cards[i].reviewCount

C33_BoxesAndCounts ==
    []C33_BoxesInRange /\ [][currentUser' = currentUser => C33_IntroducedStays]_vars

\* C34: injecting a lesson whose id is already in injectedLessonIds changes
\* neither the collection nor injectedLessonIds; after any sequence of
\* injections each lesson id occurs at most once in injectedLessonIds and the
\* collection holds exactly one card per item of each injected lesson; an
\* injection appends the new cards and leaves the existing cards as they were,
\* in their order.
RECURSIVE ItemsOf(_)
ItemsOf(lessonIds) ==
    IF lessonIds = <<>> THEN 0
    ELSE Len(SharedNoteLessons[Head(lessonIds)]) + ItemsOf(Tail(lessonIds))

C34_OneCardPerItem ==
    /\ \A i, j \in DOMAIN injectedLessonIds :
          i # j => injectedLessonIds[i] # injectedLessonIds[j]
    /\ Len(cards) = ItemsOf(injectedLessonIds)

C34_InjectionAppends ==
    /\ InjectInjectedLesson => UNCHANGED <<cards, injectedLessonIds>>
    /\ Len(injectedLessonIds') > Len(injectedLessonIds)
         => /\ Len(cards') >= Len(cards)
            /\ SubSeq(cards', 1, Len(cards)) = cards

C34_Injection == []C34_OneCardPerItem /\ [][C34_InjectionAppends]_vars

\* C35: at every polling round of the detection loop chord detection is used
\* if and only if the card displayed at the round's start is a chord card,
\* also after the card displayed has changed from a note card to a chord card
\* while listening goes on.
C35_DetectorOfDisplayedCard ==
    [][(StartLoop \/ RoundEnds)
         => \A tm \in timers' :
               (tm.kind = "round" /\ tm.left = RoundPeriod)
               => (tm.verdict = "detectChordStable"
                     <=> (currentCard' # None /\ isChordCard(currentCard'[1])))]_vars

\* C36: a detection result of a round that started before the current card
\* was displayed is never the candidate the current card is judged by: when
\* such a round ends, no stabilization window starts.
C36_NoCandidateFromEarlierRound ==
    [][\A tm \in timers :
          (/\ RoundEnds
           /\ tm.kind = "round" /\ tm.left = 0 /\ ~tm.pres)
          => \A st \in timers' : st.kind = "detect" => st \in timers]_vars

\* C37: when the collection holds a card that is new or whose nextReviewDate
\* has been reached and no card is displayed, a card is displayed eventually
\* without another lesson being injected; so the last card, demoted while no
\* other card is due or new, is displayed again once its box-0 interval has
\* passed.
CardWaiting ==
    \E i \in DOMAIN cards :
        \/ cards[i].boxNumber = -1
        \/ cards[i].boxNumber >= 0 /\ cards[i].nextReviewDate <= now

C37_WaitingCardPresented == (currentCard = None /\ CardWaiting) ~> (currentCard # None)

\* C39: every chord made for a major-chord lesson (natural, sharp and flat
\* roots, root position and both inversions) has exactly 3 notes, of the pitch
\* classes root, root + 4 and root + 7 semitones; the three inversions of a
\* root have the same pitches up to octave and order.
\* The place of a name in the octave, in semitones above C.
Semitone(name) == indexOf(noteNames, flatToSharp(name))

MajorTriad(rootName) ==
    {Semitone(rootName), (Semitone(rootName) + 4) % 12, (Semitone(rootName) + 7) % 12}

C39_MajorTriads ==
    (last.op \in {"createMajorChord", "createChordInversions"} /\ last.res # None)
    => \A k \in DOMAIN last.res[1] :
          /\ Len(last.res[1][k].notes) = 3
          /\ {Semitone(last.res[1][k].notes[n].name) : n \in 1..3}
                = MajorTriad(last.arg[1].rootName)

====
